---- MODULE Spec2Model ----
(***************************************************************************)
(* A model of nitroefx: the fixed-point random helpers (spl_random.h), the *)
(* resource editor (editor.cpp), the archive decoder and the emitter       *)
(* simulation.  Each group of variables has its own specification.         *)
(***************************************************************************)
EXTENDS Integers, Naturals, Sequences, FiniteSets, TLC

VARIABLES
    rng_n,          \* the argument n (or range), as a numerator over FX32_ONE
    rng_variance,   \* the argument variance, as a numerator over VarDen
    rng_raw,        \* upper 16 bits of the last 32-bit draw of nextU32()
    rng_call,       \* which helper produced rng_result
    rng_result,     \* the fx32 value handed to FX_FX32_TO_F32
    ar_file,        \* the archive file on disk
    ar_pc,          \* "closed", "invalid", "error" or "open"
    ar_archive,     \* the SPLArchive of the editor instance (m_resources, m_textures)
    ed_selected,    \* Editor::m_selectedResources of that editor (-1: none)
    em_res,         \* the simulation parameters of the resource emitters are spawned from
    em_emitters,    \* the emitters of the active editor's particle system, by slot
    em_tasks,       \* Editor::m_emitterTasks
    em_last,        \* history: the last operation, its dt and its collision hit
    bh_tick,        \* history: the behaviours applied to a particle in the last tick
    an_conv,        \* an angle index, its angle and the index computed back from it
    ix_contains,    \* whether m_selectedResources has an entry for the editor
    ix_use,         \* the last index handed to an archive container, with its size
    dr_runs,        \* two processes, each with its SPLRandom instance and one emitter
    cli_run,        \* a command-line run: its arguments, the file, what it exported
    tx_load,        \* an archive load creating its GPU textures: formats, uploads, log
    fz_files,       \* the regular files of the project directory
    fz_index,       \* the keys of ProjectManager::m_fuzzyIndex
    fz_owner,       \* the thread that holds m_fuzzyMutex, or "none"
    fz_pc,      \* per thread: where it is in its call, and the arguments
    rb_build,   \* the background index build: its scan, its result, what changed meanwhile
    fq_find,    \* the fuzzy finder: the indexed files, the query, the kept candidates, the results
    pj_state,   \* the open project, its fuzzy index, the cache files, the last close
    fm_state,   \* m_fuzzyFiles and m_fuzzyIndex as a vector and a map
    hl_state,   \* the host loop: idle accumulator, time passed on, last iteration
    it_state,   \* interval spawn tasks over two editors and a clock
    ol_state,   \* m_openEditors, m_activeEditor and the last operation on them
    rc_state        \* m_recentFiles, m_recentProjects and the last addition

rngVars == <<rng_n, rng_variance, rng_raw, rng_call, rng_result>>
arVars == <<ar_file, ar_pc, ar_archive, ed_selected>>
emVars == <<em_res, em_emitters, em_tasks, em_last>>
bhVars == <<bh_tick>>
anVars == <<an_conv>>
ixVars == <<ix_contains, ix_use>>
drVars == <<dr_runs>>
cliVars == <<cli_run>>
txVars == <<tx_load>>
fzVars == <<fz_files, fz_index, fz_owner, fz_pc>>
rbVars == <<rb_build>>
fqVars == <<fq_find>>
pjVars == <<pj_state>>
fmVars == <<fm_state>>
hlVars == <<hl_state>>
itVars == <<it_state>>
olVars == <<ol_state>>
rcVars == <<rc_state>>

vars == <<rngVars, arVars, emVars, bhVars, anVars, ixVars, drVars, cliVars, txVars, fzVars, rbVars, fqVars, pjVars, fmVars, hlVars, itVars, olVars, rcVars>>

(***************************************************************************)
(* Fixed-point numerics (fx32: signed 32 bit, 12 fractional bits).         *)
(***************************************************************************)
FX32_SHIFT == 12
FX32_ONE == 2 ^ FX32_SHIFT
S32_MAX == 2147483647
Word16 == 2 ^ 16
Half16 == 2 ^ 15

\* 32-bit two's complement product a * k, computed in 16-bit limbs.
WrapMul(a, k) ==
    LET ah == a \div Word16
        al == a % Word16
        y  == al * k
        x  == (ah * k + (y \div Word16)) % Word16
        xs == IF x >= Half16 THEN x - Word16 ELSE x
    IN  xs * Word16 + (y % Word16)

\* 32-bit two's complement sum x + y, computed in 16-bit limbs.
WrapAdd(x, y) ==
    LET l  == (x % Word16) + (y % Word16)
        h  == ((x \div Word16) + (y \div Word16) + (l \div Word16)) % Word16
        hs == IF h >= Half16 THEN h - Word16 ELSE h
    IN  hs * Word16 + (l % Word16)

\* (a * k) >> 8 on fx32.  When a * k leaves the s32 range the multiplication
\* is undefined: a build either wraps to 32 bits and shifts, or evaluates in a
\* wider register and truncates after the shift.  Both agree when nothing
\* overflows.
MulShr8(a, k) ==
    { WrapMul(a, k) \div 256,
      WrapAdd(WrapMul(a \div 256, k), ((a % 256) * k) \div 256) }

\* float -> fx32: multiply by 4096 and truncate (num/den >= 0).
FX_F32_TO_FX32(num, den) ==
    (num \div den) * FX32_ONE + ((num % den) * FX32_ONE) \div den

(***************************************************************************)
(* SPLRandom                                                               *)
(***************************************************************************)
VarDen == 4

\* nextU32(bits): the top `bits` bits of a 32-bit draw (raw: its upper half).
nextU32(raw, bits) == raw \div (2 ^ (16 - bits))

\* (fx32)(variance * 255.0f)
VarianceRange(v) == (v * 255) \div VarDen

scaledRangeFactor(range, r8) == 255 - ((range * r8) \div 256)

scaledRange(n, variance, raw) ==
    LET nx    == FX_F32_TO_FX32(n, FX32_ONE)
        range == VarianceRange(variance)
    IN  MulShr8(nx, scaledRangeFactor(range, nextU32(raw, 8)))

scaledRange2Factor(range, r8) == 255 + range - ((range * r8) \div 128)

scaledRange2(n, variance, raw) ==
    LET nx    == FX_F32_TO_FX32(n, FX32_ONE)
        range == VarianceRange(variance)
    IN  MulShr8(nx, scaledRange2Factor(range, nextU32(raw, 8)))

\* a draw that is off by one in the subtraction rangeFX << 8
aroundZeroFactor_Off(r9) == r9 - 255

\* rangeFX * r9 - (rangeFX << 8) = rangeFX * (r9 - 256)
aroundZeroFactor(r9) == r9 - 256

aroundZero(range, raw) ==
    LET rangeFX == FX_F32_TO_FX32(range, FX32_ONE)
    IN  MulShr8(rangeFX, aroundZeroFactor(nextU32(raw, 9)))

NValues == {0, 1, 255, FX32_ONE, 10 * FX32_ONE, 4202511, 4202512,
            8421504, 8421505, 8388608, S32_MAX}
\* one draw for every value of its upper 9 bits, with varying lower bits
Draws == {k * 128 + ((k * 37) % 128) : k \in 0..511}

RngIdle ==
    /\ rng_n = 0
    /\ rng_variance = 0
    /\ rng_raw = 0
    /\ rng_call = "none"
    /\ rng_result = 0

RngInit ==
    /\ rng_n \in NValues
    /\ rng_variance \in 0..VarDen
    /\ rng_raw = 0
    /\ rng_call = "none"
    /\ rng_result = 0

ScaledRangeCall ==
    \E raw \in Draws :
        /\ rng_call = "none"
        /\ rng_raw' = raw
        /\ rng_call' = "scaledRange"
        /\ rng_result' \in scaledRange(rng_n, rng_variance, raw)
        /\ UNCHANGED <<rng_n, rng_variance>>
        /\ UNCHANGED <<arVars, emVars, bhVars, anVars, ixVars, drVars, cliVars, txVars, fzVars, rbVars, fqVars, pjVars, fmVars, hlVars, itVars, olVars, rcVars>>

ScaledRange2Call ==
    \E raw \in Draws :
        /\ rng_call = "none"
        /\ rng_raw' = raw
        /\ rng_call' = "scaledRange2"
        /\ rng_result' \in scaledRange2(rng_n, rng_variance, raw)
        /\ UNCHANGED <<rng_n, rng_variance>>
        /\ UNCHANGED <<arVars, emVars, bhVars, anVars, ixVars, drVars, cliVars, txVars, fzVars, rbVars, fqVars, pjVars, fmVars, hlVars, itVars, olVars, rcVars>>

AroundZeroCall ==
    \E raw \in Draws :
        /\ rng_call = "none"
        /\ rng_raw' = raw
        /\ rng_call' = "aroundZero"
        /\ rng_result' \in aroundZero(rng_n, raw)
        /\ UNCHANGED <<rng_n, rng_variance>>
        /\ UNCHANGED <<arVars, emVars, bhVars, anVars, ixVars, drVars, cliVars, txVars, fzVars, rbVars, fqVars, pjVars, fmVars, hlVars, itVars, olVars, rcVars>>

RngNext == ScaledRangeCall \/ ScaledRange2Call \/ AroundZeroCall

(***************************************************************************)
(* Archive file and decoder (SPLArchive::load), std::istream operator>>    *)
(***************************************************************************)
MaxRes == 2
MaxTex == 1
LastEmissionType == 9

\* behaviour kinds in the canonical order of the file
BehaviorKinds ==
    <<"Gravity", "Random", "Magnet", "Spin", "CollisionPlane", "Convergence">>

BehaviorFlag ==
    [Gravity |-> "hasGravityBehavior", Random |-> "hasRandomBehavior",
     Magnet |-> "hasMagnetBehavior", Spin |-> "hasSpinBehavior",
     CollisionPlane |-> "hasCollisionPlaneBehavior",
     Convergence |-> "hasConvergenceBehavior"]

KindSet == {BehaviorKinds[i] : i \in 1..Len(BehaviorKinds)}
AnimFlags == {"hasScaleAnim", "hasColorAnim", "hasAlphaAnim", "hasTexAnim"}
BehaviorFlags == {BehaviorFlag[k] : k \in KindSet}

\* the optional records, in the order in which they follow a resource header
OptionalOrder ==
    <<"hasScaleAnim", "hasColorAnim", "hasAlphaAnim", "hasTexAnim",
      "hasChildResource">> \o [i \in 1..Len(BehaviorKinds) |-> BehaviorFlag[BehaviorKinds[i]]]

Token(kind, flags, emissionType, sizeOk, magicOk, resCount, texCount) ==
    [kind |-> kind, flags |-> flags, emissionType |-> emissionType,
     sizeOk |-> sizeOk, magicOk |-> magicOk, resCount |-> resCount,
     texCount |-> texCount]

\* what a failed read leaves in the destination
Garbage == Token("garbage", {}, 0, FALSE, FALSE, 0, 0)

RECURSIVE Flatten(_)
Flatten(ss) == IF ss = <<>> THEN <<>> ELSE Head(ss) \o Flatten(Tail(ss))

ResTokens(r) ==
    LET opt == SelectSeq(OptionalOrder, LAMBDA f : f \in r.flags)
    IN  <<Token("ResHeader", r.flags, r.emissionType, TRUE, TRUE, 0, 0)>>
        \o [i \in 1..Len(opt) |-> Token(opt[i], {}, 0, TRUE, TRUE, 0, 0)]

TexTokens(t) ==
    <<Token("TexHeader", {}, 0, t.sizeOk, TRUE, 0, 0),
      Token("TexData", {}, 0, TRUE, TRUE, 0, 0)>>

\* the bytes of a complete file written from f
Layout(f) ==
    <<Token("FileHeader", {}, 0, TRUE, f.magicOk, Len(f.res), Len(f.tex))>>
    \o Flatten([i \in 1..Len(f.res) |-> ResTokens(f.res[i])])
    \o Flatten([i \in 1..Len(f.tex) |-> TexTokens(f.tex[i])])

\* the bytes actually on disk: the layout cut after f.len records
FileData(f) ==
    LET all == Layout(f)
    IN  SubSeq(all, 1, IF f.len < Len(all) THEN f.len ELSE Len(all))

\* a read that leaves the stream good although too few bytes were left
StreamRead_NoFail(s) ==
    IF s.pos < Len(s.data)
    THEN [stream |-> [s EXCEPT !.pos = @ + 1], value |-> s.data[s.pos + 1]]
    ELSE [stream |-> s, value |-> Garbage]

\* operator>>(std::istream&, T&): stream.read of sizeof(T) bytes
StreamRead(s) ==
    IF ~s.fail /\ s.pos < Len(s.data)
    THEN [stream |-> [s EXCEPT !.pos = @ + 1], value |-> s.data[s.pos + 1]]
    ELSE [stream |-> [s EXCEPT !.fail = TRUE], value |-> Garbage]

EmptyResource(flags) ==
    [flags |-> flags, scaleAnim |-> FALSE, colorAnim |-> FALSE,
     alphaAnim |-> FALSE, texAnim |-> FALSE, childResource |-> FALSE,
     behaviors |-> <<>>, consumed |-> <<>>]

FlagKind(flag) == CHOOSE k \in KindSet : BehaviorFlag[k] = flag

\* store the optional record read for `flag` in the resource
Attach(res, flag) ==
    CASE flag = "hasScaleAnim" -> [res EXCEPT !.scaleAnim = TRUE]
      [] flag = "hasColorAnim" -> [res EXCEPT !.colorAnim = TRUE]
      [] flag = "hasAlphaAnim" -> [res EXCEPT !.alphaAnim = TRUE]
      [] flag = "hasTexAnim" -> [res EXCEPT !.texAnim = TRUE]
      [] flag = "hasChildResource" -> [res EXCEPT !.childResource = TRUE]
      [] OTHER -> [res EXCEPT !.behaviors = Append(@, FlagKind(flag))]

DecodeFailure(s) == [ok |-> FALSE, stream |-> s, value |-> <<>>]

\* the record read for `flag`: res.consumed lists the records as they were read
ReadOptional(s, res, flag) ==
    LET r == StreamRead(s)
    IN  IF r.stream.fail THEN DecodeFailure(r.stream)
        ELSE [ok |-> TRUE, stream |-> r.stream,
              value |-> Attach([res EXCEPT !.consumed = Append(@, r.value.kind)], flag)]

RECURSIVE DecodeOptionals_All(_, _, _)
\* a decoder that reads a ChildResource record whether or not the flag is set
DecodeOptionals_All(s, i, res) ==
    IF i > Len(OptionalOrder) THEN [ok |-> TRUE, stream |-> s, value |-> res]
    ELSE IF OptionalOrder[i] \notin res.flags \cup {"hasChildResource"}
         THEN DecodeOptionals_All(s, i + 1, res)
    ELSE LET r == ReadOptional(s, res, OptionalOrder[i])
         IN  IF ~r.ok THEN r ELSE DecodeOptionals_All(r.stream, i + 1, r.value)

RECURSIVE DecodeOptionals(_, _, _)
\* the optional records of a resource, selected by its flags
DecodeOptionals(s, i, res) ==
    IF i > Len(OptionalOrder) THEN [ok |-> TRUE, stream |-> s, value |-> res]
    ELSE IF OptionalOrder[i] \notin res.flags THEN DecodeOptionals(s, i + 1, res)
    ELSE LET r == ReadOptional(s, res, OptionalOrder[i])
         IN  IF ~r.ok THEN r ELSE DecodeOptionals(r.stream, i + 1, r.value)

DecodeResource(s) ==
    LET h == StreamRead(s)
    IN  IF h.stream.fail \/ h.value.emissionType > LastEmissionType
        THEN DecodeFailure(h.stream)
        ELSE DecodeOptionals(h.stream, 1, EmptyResource(h.value.flags))

RECURSIVE DecodeResources(_, _, _)
DecodeResources(s, n, acc) ==
    IF n = 0 THEN [ok |-> TRUE, stream |-> s, value |-> acc]
    ELSE LET r == DecodeResource(s)
         IN  IF ~r.ok THEN DecodeFailure(r.stream)
             ELSE DecodeResources(r.stream, n - 1, Append(acc, r.value))

DecodeTexture(s) ==
    LET h == StreamRead(s)
        d == StreamRead(h.stream)
    IN  IF h.stream.fail \/ ~h.value.sizeOk \/ d.stream.fail
        THEN DecodeFailure(d.stream)
        ELSE [ok |-> TRUE, stream |-> d.stream, value |-> [width |-> 8, height |-> 8]]

RECURSIVE DecodeTextures(_, _, _)
DecodeTextures(s, n, acc) ==
    IF n = 0 THEN [ok |-> TRUE, stream |-> s, value |-> acc]
    ELSE LET r == DecodeTexture(s)
         IN  IF ~r.ok THEN DecodeFailure(r.stream)
             ELSE DecodeTextures(r.stream, n - 1, Append(acc, r.value))

NoArchive == [ok |-> FALSE, resources |-> <<>>, textures |-> <<>>]

\* SPLArchive::SPLArchive / load: all of the file, or an error and nothing
Decode(data) ==
    LET h == StreamRead([data |-> data, pos |-> 0, fail |-> FALSE])
    IN  IF h.stream.fail \/ ~h.value.magicOk THEN NoArchive
        ELSE LET rs == DecodeResources(h.stream, h.value.resCount, <<>>)
             IN  IF ~rs.ok THEN NoArchive
                 ELSE LET ts == DecodeTextures(rs.stream, h.value.texCount, <<>>)
                      IN  IF ~ts.ok THEN NoArchive
                          ELSE [ok |-> TRUE, resources |-> rs.value,
                                textures |-> ts.value]

\* SPLArchive::isValid: magic and version of the header only
IsValid(data) == Len(data) >= 1 /\ data[1].magicOk

ResChoices ==
    {[flags |-> fl, emissionType |-> e] :
        fl \in {{}, {"hasScaleAnim", "hasGravityBehavior"}, {"hasChildResource"}},
        e \in {0, LastEmissionType + 3}}
TexChoices == {[sizeOk |-> b] : b \in BOOLEAN}

SeqsUpTo(S, n) == UNION {[1..k -> S] : k \in 0..n}

DecodeFiles ==
    {[magicOk |-> m, res |-> rs, tex |-> ts, len |-> l] :
        m \in BOOLEAN, rs \in SeqsUpTo(ResChoices, MaxRes),
        ts \in SeqsUpTo(TexChoices, MaxTex), l \in 0..(3 * MaxRes + 2 * MaxTex + 1)}

\* files with one resource, under every combination of its eleven flags
FlagFiles ==
    {[magicOk |-> TRUE,
      res |-> <<[flags |-> fl, emissionType |-> 0]>>,
      tex |-> <<[sizeOk |-> TRUE]>>,
      len |-> 4 + Cardinality(fl)] :
        fl \in SUBSET (AnimFlags \cup {"hasChildResource"} \cup BehaviorFlags)}

FlInit ==
    /\ ar_file \in FlagFiles
    /\ ar_pc = "closed"
    /\ ar_archive = NoArchive
    /\ ed_selected = -1

ArIdle ==
    /\ ar_file = [magicOk |-> TRUE, res |-> <<>>, tex |-> <<>>, len |-> 1]
    /\ ar_pc = "closed"
    /\ ar_archive = NoArchive
    /\ ed_selected = -1

ArInit ==
    /\ ar_file \in DecodeFiles
    /\ ar_pc = "closed"
    /\ ar_archive = NoArchive
    /\ ed_selected = -1

\* ProjectManager::openEditor(path): probe, then construct the EditorInstance
OpenEditor ==
    /\ ar_pc = "closed"
    /\ IF ~IsValid(FileData(ar_file))
       THEN ar_pc' = "invalid" /\ ar_archive' = NoArchive
       ELSE LET a == Decode(FileData(ar_file))
            IN  /\ ar_archive' = a
                /\ ar_pc' = IF a.ok THEN "open" ELSE "error"
    /\ UNCHANGED <<ar_file, ed_selected>>
    /\ UNCHANGED <<rngVars, emVars, bhVars, anVars, ixVars, drVars, cliVars, txVars, fzVars, rbVars, fqVars, pjVars, fmVars, hlVars, itVars, olVars, rcVars>>

\* ProjectManager::closeEditor(editor, force)
CloseEditor ==
    /\ ar_pc # "closed"
    /\ ar_pc' = "closed"
    /\ ar_archive' = NoArchive
    /\ ed_selected' = -1
    /\ UNCHANGED ar_file
    /\ UNCHANGED <<rngVars, emVars, bhVars, anVars, ixVars, drVars, cliVars, txVars, fzVars, rbVars, fqVars, pjVars, fmVars, hlVars, itVars, olVars, rcVars>>

ArNext == OpenEditor \/ CloseEditor

(***************************************************************************)
(* The resource editor (Editor::renderResourcePicker, renderBehaviorEditor,*)
(* renderChildrenEditor) on the selected resource of the open archive.     *)
(***************************************************************************)
SelectedResource == ar_archive.resources[ed_selected + 1]

RemoveAt(seq, i) == SubSeq(seq, 1, i - 1) \o SubSeq(seq, i + 1, Len(seq))

\* SPLResourceHeader::addBehavior / removeBehavior: the has<Kind>Behavior bit
addBehavior(flags, kind) == flags \cup {BehaviorFlag[kind]}
removeBehavior(flags, kind) == flags \ {BehaviorFlag[kind]}

\* a menu whose items stay enabled whatever the flags
MenuItemEnabled_Always(res, kind) == TRUE

\* ImGui::MenuItem(<kind>, nullptr, false, !res.header.flags.has<Kind>Behavior)
MenuItemEnabled(res, kind) == BehaviorFlag[kind] \notin res.flags

\* the "Add Behavior..." popup with a click on `kind` ("none": no click)
AddBehaviorMenu(res, kind) ==
    IF kind # "none" /\ MenuItemEnabled(res, kind)
    THEN [res EXCEPT !.behaviors = Append(@, kind),
                     !.flags = addBehavior(@, kind)]
    ELSE res

\* "Delete" in the context menu of the i-th behaviour (0: no click): each
\* list entry is its own object, so std::erase removes exactly that entry
DeleteBehavior(res, i) ==
    IF i = 0 THEN res
    ELSE [res EXCEPT !.behaviors = RemoveAt(@, i),
                     !.flags = removeBehavior(@, res.behaviors[i])]

\* the "Add Child Resource" button, shown while there is no child resource
AddChildResource(res, click) ==
    IF ~res.childResource /\ click
    THEN [res EXCEPT !.childResource = TRUE]
    ELSE res

EditorFlagChoices ==
    { {},
      BehaviorFlags \cup {"hasChildResource"},
      {"hasGravityBehavior", "hasSpinBehavior"},
      {"hasRandomBehavior", "hasCollisionPlaneBehavior", "hasChildResource"},
      {"hasScaleAnim", "hasConvergenceBehavior"} }

EditorFiles ==
    {[magicOk |-> TRUE,
      res |-> <<[flags |-> fl, emissionType |-> 0]>>,
      tex |-> <<[sizeOk |-> TRUE]>>,
      len |-> 4 + Cardinality(fl)] : fl \in EditorFlagChoices}

EdInit ==
    /\ ar_file \in EditorFiles
    /\ ar_pc = "closed"
    /\ ar_archive = NoArchive
    /\ ed_selected = -1

\* Editor::renderResourcePicker: a click on the i-th list entry
SelectResource ==
    /\ ar_pc = "open"
    /\ \E i \in 0..(Len(ar_archive.resources) - 1) : ed_selected' = i
    /\ UNCHANGED <<ar_file, ar_pc, ar_archive>>
    /\ UNCHANGED <<rngVars, emVars, bhVars, anVars, ixVars, drVars, cliVars, txVars, fzVars, rbVars, fqVars, pjVars, fmVars, hlVars, itVars, olVars, rcVars>>

\* Editor::renderBehaviorEditor(resource): one frame of the "Behaviors" tab,
\* the user clicking menu items among `kinds` only
RenderBehaviors(kinds) ==
    /\ ar_pc = "open"
    /\ ed_selected # -1
    /\ \E add \in kinds \cup {"none"} :
         LET added == AddBehaviorMenu(SelectedResource, add)
         IN  \E del \in 0..Len(added.behaviors) :
                ar_archive' = [ar_archive EXCEPT
                    !.resources[ed_selected + 1] = DeleteBehavior(added, del)]
    /\ UNCHANGED <<ar_file, ar_pc, ed_selected>>
    /\ UNCHANGED <<rngVars, emVars, bhVars, anVars, ixVars, drVars, cliVars, txVars, fzVars, rbVars, fqVars, pjVars, fmVars, hlVars, itVars, olVars, rcVars>>

RenderBehaviorEditor == RenderBehaviors(KindSet)

\* Editor::renderChildrenEditor(resource): one frame of the "Children" tab
RenderChildrenEditor ==
    /\ ar_pc = "open"
    /\ ed_selected # -1
    /\ \E click \in BOOLEAN :
         ar_archive' = [ar_archive EXCEPT
             !.resources[ed_selected + 1] = AddChildResource(SelectedResource, click)]
    /\ UNCHANGED <<ar_file, ar_pc, ed_selected>>
    /\ UNCHANGED <<rngVars, emVars, bhVars, anVars, ixVars, drVars, cliVars, txVars, fzVars, rbVars, fqVars, pjVars, fmVars, hlVars, itVars, olVars, rcVars>>

EdNext ==
    OpenEditor \/ SelectResource \/ RenderBehaviorEditor \/ RenderChildrenEditor

(***************************************************************************)
(* Emitters and particles: SPLEmitter, the particle system of the editor   *)
(* instance, and Editor::updateParticles / playEmitterAction /             *)
(* killEmitters.  Times are whole time units.                              *)
(***************************************************************************)
MaxEmitters == 1
MaxTasks == 1
MaxAge == 6
MaxParticles == 3
MaxDt == 2

ActiveEditor == "active"
OtherEditor == "other"

SimResource(E, L, I, count, delay, self, child, killing) ==
    [emitterLifeTime |-> E, particleLifeTime |-> L, emissionInterval |-> I,
     emissionCount |-> count, startDelay |-> delay, selfMaintaining |-> self,
     hasChildResource |-> child, childLifeTime |-> 2, childEmissionInterval |-> 1,
     childEmissionCount |-> 1, collisionKill |-> killing]

EmitterResources ==
    { SimResource(2, 2, 2, 1, 0, TRUE, FALSE, FALSE),
      SimResource(2, 2, 2, 1, 0, FALSE, FALSE, FALSE),
      SimResource(0, 2, 1, 1, 0, TRUE, FALSE, FALSE),
      SimResource(4, 1, 4, 1, 0, TRUE, TRUE, FALSE),
      SimResource(3, 3, 2, 1, 2, FALSE, TRUE, FALSE),
      SimResource(2, 3, 1, 1, 0, TRUE, FALSE, TRUE),
      SimResource(1, 1, 1, 0, 0, TRUE, FALSE, FALSE),
      SimResource(4, 1, 2, 2, 0, TRUE, FALSE, FALSE),
      SimResource(4, 3, 1, 1, 0, FALSE, FALSE, FALSE),
      SimResource(4, 2, 1, 1, 2, TRUE, FALSE, FALSE),
      SimResource(1, 2, 1, 1, 3, TRUE, FALSE, FALSE) }

NoHit == [slot |-> 0, index |-> 0]

\* an unused slot of the particle system
Free ==
    [live |-> FALSE, age |-> 0, particles |-> <<>>, childParticles |-> <<>>,
     terminate |-> FALSE, emitted |-> 0, spawned |-> 0]

\* a fresh emitter; what looped changes is not part of this model
NewEmitter(looped) == [Free EXCEPT !.live = TRUE]

FreeSlots(ems) == {i \in DOMAIN ems : ~ems[i].live}

addEmitter(ems, looped) ==
    IF FreeSlots(ems) = {} THEN ems
    ELSE LET i == CHOOSE k \in FreeSlots(ems) : \A j \in FreeSlots(ems) : k <= j
         IN  [ems EXCEPT ![i] = NewEmitter(looped)]

\* n new particles; born is the emitter's age at the start of the spawning tick
Spawn(n, lifeTime, born) ==
    [i \in 1..n |-> [life |-> 0, lifeTime |-> lifeTime, born |-> born]]

\* an emission that misses the first interval boundary
Crossed_Late(t0, t1, interval) ==
    t0 > 0 /\ (t1 \div interval) > (t0 \div interval)

\* step 2: the time t1 is past an interval boundary that t0 was not past
Crossed(t0, t1, interval) == (t1 \div interval) > (t0 \div interval)

\* an emission that spawns emissionCount particles for every boundary crossed
Emit_PerBoundary(res, e, age1) ==
    IF age1 >= res.startDelay
    THEN Spawn(res.emissionCount * ((age1 \div res.emissionInterval)
                                      - (e.age \div res.emissionInterval)),
               res.particleLifeTime, e.age)
    ELSE <<>>

\* an emission that does not wait for the start delay
Emit_NoDelay(res, e, age1) ==
    IF Crossed(e.age, age1, res.emissionInterval)
    THEN Spawn(res.emissionCount, res.particleLifeTime, e.age)
    ELSE <<>>

\* step 2: the particles emitted in the tick that takes e.age to age1
Emit(res, e, age1) ==
    IF age1 >= res.startDelay /\ Crossed(e.age, age1, res.emissionInterval)
    THEN Spawn(res.emissionCount, res.particleLifeTime, e.age)
    ELSE <<>>

\* the primary pool that step 3 runs over
Parents(res, e, dt) == e.particles \o Emit(res, e, e.age + dt)

\* step 2: the child particles a parent particle emits in this tick
ChildrenOf(res, p, dt, born) ==
    IF res.hasChildResource /\ Crossed(p.life, p.life + dt, res.childEmissionInterval)
    THEN Spawn(res.childEmissionCount, res.childLifeTime, born)
    ELSE <<>>

\* step 3: every particle of a pool gets dt older
AdvanceLife(pool, dt) == [i \in 1..Len(pool) |-> [pool[i] EXCEPT !.life = @ + dt]]

\* step 3: a CollisionPlane behaviour of kind Kill removes the particle that
\* crossed the plane in this tick (hit = 0: none crossed)
CollisionKill(res, pool, hit) ==
    IF res.collisionKill /\ hit \in 1..Len(pool) THEN RemoveAt(pool, hit) ELSE pool

\* a retirement that keeps a particle whose life has just reached its lifetime
Retire_Late(pool) == SelectSeq(pool, LAMBDA p : p.life <= p.lifeTime)

\* step 4: particles whose elapsed life >= lifetime leave the pool
Retire(pool) == SelectSeq(pool, LAMBDA p : p.life < p.lifeTime)

\* a termination test that does not look at the pools
ShouldTerminate_AgeOnly(res, e) ==
    e.age >= res.emitterLifeTime /\ res.selfMaintaining

\* step 5
ShouldTerminate(res, e) ==
    /\ e.age >= res.emitterLifeTime
    /\ res.selfMaintaining
    /\ e.particles = <<>>
    /\ e.childParticles = <<>>

\* SPLEmitter::update for a tick of dt
update(res, e, dt, hit) ==
    LET age1 == e.age + dt
        emitted == Emit(res, e, age1)
        parents == Parents(res, e, dt)
        children == e.childParticles
            \o Flatten([i \in 1..Len(parents) |-> ChildrenOf(res, parents[i], dt, e.age)])
        e1 == [e EXCEPT
                 !.age = age1,
                 !.particles = Retire(CollisionKill(res, AdvanceLife(parents, dt), hit)),
                 !.childParticles = Retire(AdvanceLife(children, dt)),
                 !.emitted = @ + (IF emitted = <<>> THEN 0 ELSE 1),
                 !.spawned = @ + Len(emitted)]
    IN  [e1 EXCEPT !.terminate = ShouldTerminate(res, e1)]

\* SPLEmitter kill: terminate at once, both pools cleared
kill(e) == [e EXCEPT !.terminate = TRUE, !.particles = <<>>, !.childParticles = <<>>]

killAllEmitters(ems) ==
    [i \in DOMAIN ems |-> IF ems[i].live THEN kill(ems[i]) ELSE ems[i]]

\* terminated emitters are destroyed
Reap(ems) ==
    [i \in DOMAIN ems |-> IF ems[i].live /\ ems[i].terminate THEN Free ELSE ems[i]]

\* the particle system's update: destroy what has terminated, tick the rest
ParticleSystemUpdate(res, ems, dt, hit) ==
    LET kept == Reap(ems)
    IN  [i \in DOMAIN ems |->
            IF kept[i].live
            THEN update(res, kept[i], dt, IF hit.slot = i THEN hit.index ELSE 0)
            ELSE kept[i]]

\* the particles a collision plane can catch in a tick of dt
Hits(res, ems, dt) ==
    {NoHit} \cup
    (IF res.collisionKill
     THEN {[slot |-> i, index |-> k] :
              i \in {j \in DOMAIN ems : ems[j].live /\ ~ems[j].terminate},
              k \in 1..MaxParticles}
     ELSE {})

RECURSIVE FireTasks(_, _, _, _)
\* the task loop of Editor::updateParticles: every due task of the active editor
FireTasks(ems, tasks, due, i) ==
    IF i > Len(tasks) THEN ems
    ELSE FireTasks(IF tasks[i].editorID = ActiveEditor /\ i \in due
                   THEN addEmitter(ems, FALSE) ELSE ems,
                   tasks, due, i + 1)

DueTasks(tasks, due) == {i \in due : tasks[i].editorID = ActiveEditor}

EmIdle ==
    /\ em_res = SimResource(0, 1, 1, 0, 0, FALSE, FALSE, FALSE)
    /\ em_emitters = [i \in 1..MaxEmitters |-> Free]
    /\ em_tasks = <<>>
    /\ em_last = [op |-> "none", dt |-> 0, hit |-> NoHit]

EmInit ==
    /\ em_res \in EmitterResources
    /\ em_emitters = [i \in 1..MaxEmitters |-> Free]
    /\ em_tasks \in {<<>>, <<[resourceIndex |-> 0, editorID |-> OtherEditor]>>}
    /\ em_last = [op |-> "none", dt |-> 0, hit |-> NoHit]

\* an editor with its one resource selected
ArOpenSelected ==
    LET f == [magicOk |-> TRUE, res |-> <<[flags |-> {}, emissionType |-> 0]>>,
              tex |-> <<[sizeOk |-> TRUE]>>, len |-> 4]
    IN  /\ ar_file = f
        /\ ar_pc = "open"
        /\ ar_archive = Decode(FileData(f))
        /\ ed_selected = 0

\* Editor::updateParticles(deltaTime)
Tick(dts, maxAge, maxParticles) ==
    /\ ar_pc = "open"
    /\ \E dt \in dts, due \in SUBSET (1..Len(em_tasks)) :
         /\ Cardinality(DueTasks(em_tasks, due)) <= Cardinality(FreeSlots(em_emitters))
         /\ LET added == FireTasks(em_emitters, em_tasks, due, 1)
            IN  \E hit \in Hits(em_res, added, dt) :
                  LET ems == ParticleSystemUpdate(em_res, added, dt, hit)
                  IN  /\ \A i \in DOMAIN ems :
                            /\ ems[i].age <= maxAge
                            /\ Len(ems[i].particles) <= maxParticles
                            /\ Len(ems[i].childParticles) <= maxParticles
                      /\ hit # NoHit =>
                            hit.index <= Len(Parents(em_res, added[hit.slot], dt))
                      /\ em_emitters' = ems
                      /\ em_last' = [op |-> "update", dt |-> dt, hit |-> hit]
    /\ UNCHANGED <<em_res, em_tasks>>
    /\ UNCHANGED <<rngVars, arVars, bhVars, anVars, ixVars, drVars, cliVars, txVars, fzVars, rbVars, fqVars, pjVars, fmVars, hlVars, itVars, olVars, rcVars>>

UpdateParticles == Tick(1..MaxDt, MaxAge, MaxParticles)

\* Editor::playEmitterAction(spawnType)
Play(spawnType) ==
    /\ ar_pc = "open"
    /\ ed_selected # -1
    /\ FreeSlots(em_emitters) # {}
    /\ em_emitters' = addEmitter(em_emitters, spawnType = "Looped")
    /\ IF spawnType = "Interval"
       THEN /\ Len(em_tasks) < MaxTasks
            /\ em_tasks' = Append(em_tasks,
                   [resourceIndex |-> ed_selected, editorID |-> ActiveEditor])
       ELSE UNCHANGED em_tasks
    /\ em_last' = [op |-> "play", dt |-> 0, hit |-> NoHit]
    /\ UNCHANGED em_res
    /\ UNCHANGED <<rngVars, arVars, bhVars, anVars, ixVars, drVars, cliVars, txVars, fzVars, rbVars, fqVars, pjVars, fmVars, hlVars, itVars, olVars, rcVars>>

PlayEmitterAction == \E spawnType \in {"SingleShot", "Looped", "Interval"} : Play(spawnType)

\* a kill request that only forgets the interval tasks
KillEmitters_TasksOnly ==
    /\ ar_pc = "open"
    /\ em_tasks' = SelectSeq(em_tasks, LAMBDA t : t.editorID # ActiveEditor)
    /\ em_last' = [op |-> "kill", dt |-> 0, hit |-> NoHit]
    /\ UNCHANGED <<em_res, em_emitters>>
    /\ UNCHANGED <<rngVars, arVars, bhVars, anVars, ixVars, drVars, cliVars, txVars, fzVars, rbVars, fqVars, pjVars, fmVars, hlVars, itVars, olVars, rcVars>>

\* Editor::killEmitters
KillEmitters ==
    /\ ar_pc = "open"
    /\ em_emitters' = killAllEmitters(em_emitters)
    /\ em_tasks' = SelectSeq(em_tasks, LAMBDA t : t.editorID # ActiveEditor)
    /\ em_last' = [op |-> "kill", dt |-> 0, hit |-> NoHit]
    /\ UNCHANGED em_res
    /\ UNCHANGED <<rngVars, arVars, bhVars, anVars, ixVars, drVars, cliVars, txVars, fzVars, rbVars, fqVars, pjVars, fmVars, hlVars, itVars, olVars, rcVars>>

EmNext == UpdateParticles \/ PlayEmitterAction \/ KillEmitters

(***************************************************************************)
(* The 30-frames scenario, in milliseconds: one emitter of a Point         *)
(* resource, ticked by 33 ms.                                              *)
(***************************************************************************)
SPL_FRAMES_PER_SECOND == 30
ScenarioDt == 33
ScenarioInterval == 33
ScenarioLifeTime == 1000
MaxScenarioAge == 1100
MaxScenarioParticles == 70

ScenarioResource ==
    SimResource(0, ScenarioLifeTime, ScenarioInterval, 1, 0, FALSE, FALSE, FALSE)

ScenarioResources ==
    { SimResource(0, L, I, count, 0, FALSE, FALSE, FALSE) :
        L \in {ScenarioLifeTime, ScenarioLifeTime \div 2},
        I \in {ScenarioInterval, 2 * ScenarioInterval},
        count \in 1..2 }

ScInit ==
    /\ em_res \in ScenarioResources
    /\ em_emitters = [i \in 1..MaxEmitters |-> Free]
    /\ em_tasks = <<>>
    /\ em_last = [op |-> "none", dt |-> 0, hit |-> NoHit]

\* spawning the one emitter of the scenario
ScenarioSpawn ==
    /\ em_last.op = "none"
    /\ Play("SingleShot")

ScenarioTick == Tick({ScenarioDt}, MaxScenarioAge, MaxScenarioParticles)

ScNext == ScenarioSpawn \/ ScenarioTick

(***************************************************************************)
(* Behaviours of the selected resource applied to one particle in a tick   *)
(* (step 3 of the emitter update).                                         *)
(***************************************************************************)
NoTick == [listed |-> <<>>, applied |-> <<>>, killed |-> FALSE]

BhIdle == bh_tick = NoTick

\* the behaviours applied in the order of the resource's list
ApplyOrder_ListOrder(res) == res.behaviors

\* the order in which the behaviours of a resource are applied: per kind
ApplyOrder(res) ==
    SelectSeq(BehaviorKinds, LAMBDA k : k \in {res.behaviors[j] : j \in 1..Len(res.behaviors)})

RECURSIVE ApplyAll(_, _, _, _)
\* apply order[i..] to the particle; a CollisionPlane of type Kill whose plane
\* the particle crossed kills it, and a killed particle skips the rest
ApplyAll(order, i, crossed, collisionType) ==
    IF i > Len(order) THEN [applied |-> <<>>, killed |-> FALSE]
    ELSE IF order[i] = "CollisionPlane" /\ crossed /\ collisionType = "Kill"
         THEN [applied |-> <<order[i]>>, killed |-> TRUE]
         ELSE LET rest == ApplyAll(order, i + 1, crossed, collisionType)
              IN  [rest EXCEPT !.applied = <<order[i]>> \o @]

\* one particle of the selected resource in one tick
ApplyBehaviors ==
    /\ ar_pc = "open"
    /\ ed_selected # -1
    /\ \E crossed \in BOOLEAN, collisionType \in {"Kill", "Bounce"} :
          LET done == ApplyAll(ApplyOrder(SelectedResource), 1, crossed, collisionType)
          IN  bh_tick' = [listed |-> SelectedResource.behaviors,
                          applied |-> done.applied, killed |-> done.killed]
    /\ UNCHANGED <<rngVars, arVars, emVars, anVars, ixVars, drVars, cliVars, txVars, fzVars, rbVars, fqVars, pjVars, fmVars, hlVars, itVars, olVars, rcVars>>

\* the kinds the user adds, and the files opened, while particles are ticked
BhKinds == {"Gravity", "Spin", "CollisionPlane", "Convergence"}

BhInit ==
    /\ ar_file \in {f \in EditorFiles :
                       f.res[1].flags \in {{}, {"hasGravityBehavior", "hasSpinBehavior"}}}
    /\ ar_pc = "closed"
    /\ ar_archive = NoArchive
    /\ ed_selected = -1

RenderSomeBehaviors == RenderBehaviors(BhKinds)

BhNext == OpenEditor \/ SelectResource \/ RenderSomeBehaviors \/ ApplyBehaviors

(***************************************************************************)
(* SPLArchive::toAngle / toIndex.  Angles are counted in units of          *)
(* pi / 65535, in which index / 65535.0f * two_pi is a whole number.       *)
(***************************************************************************)
U16_MAX == 65535
TwoPi == 2 * U16_MAX

\* static_cast<f32>(index) / 65535.0f * glm::two_pi<f32>()
toAngle(index) == index * (TwoPi \div U16_MAX)

\* static_cast<T>(angle / glm::two_pi<f32>()) * (T)0xFFFF, T = u16: the
\* quotient is truncated to an integer before it is multiplied
toIndex(angle) == (((angle \div TwoPi) % (U16_MAX + 1)) * U16_MAX) % (U16_MAX + 1)

AnIdle == an_conv = [pc |-> "idle", index |-> 0, angle |-> 0, back |-> 0]

AnInit ==
    an_conv \in {[pc |-> "index", index |-> i, angle |-> 0, back |-> 0] : i \in 0..U16_MAX}

ToAngleCall ==
    /\ an_conv.pc = "index"
    /\ an_conv' = [an_conv EXCEPT !.pc = "angle", !.angle = toAngle(an_conv.index)]
    /\ UNCHANGED <<rngVars, arVars, emVars, bhVars, ixVars, drVars, cliVars, txVars, fzVars, rbVars, fqVars, pjVars, fmVars, hlVars, itVars, olVars, rcVars>>

ToIndexCall ==
    /\ an_conv.pc = "angle"
    /\ an_conv' = [an_conv EXCEPT !.pc = "back", !.back = toIndex(an_conv.angle)]
    /\ UNCHANGED <<rngVars, arVars, emVars, bhVars, ixVars, drVars, cliVars, txVars, fzVars, rbVars, fqVars, pjVars, fmVars, hlVars, itVars, olVars, rcVars>>

AnNext == ToAngleCall \/ ToIndexCall

(***************************************************************************)
(* The indices the editor hands to the archive's containers                *)
(* (SPLArchive::getResource, getResources()[i]).  m_selectedResources is   *)
(* an unordered_map<u64, int>: operator[] on a missing key inserts 0, the  *)
(* panels store -1 for "nothing selected".  An index outside the vector is *)
(* undefined behaviour: the build either stops or goes on with whatever    *)
(* lies behind the vector.                                                 *)
(***************************************************************************)
NoUse == [op |-> "none", index |-> 0, count |-> 0, outcome |-> "ok"]

\* std::vector::operator[] is defined for 0 <= index < size() only; the int -1
\* converts to the largest size_t
InBounds(index, count) == 0 <= index /\ index < count

\* m_selectedResources[id]
SelectedIndex == IF ix_contains THEN ed_selected ELSE 0

\* the outcomes of m_resources[index]
Outcomes(index, count) ==
    IF InBounds(index, count) THEN {"ok"} ELSE {"stopped", "garbage"}

Running == ix_use.outcome # "stopped"

IxIdle == ix_contains = FALSE /\ ix_use = NoUse

IxFiles ==
    {[magicOk |-> TRUE, res |-> rs, tex |-> <<[sizeOk |-> TRUE]>>, len |-> Len(rs) + 3] :
        rs \in SeqsUpTo({[flags |-> {}, emissionType |-> 0]}, MaxRes)}

IxInit ==
    /\ ar_file \in IxFiles
    /\ ar_pc = "closed"
    /\ ar_archive = NoArchive
    /\ ed_selected = -1
    /\ em_res = SimResource(2, 2, 2, 1, 0, TRUE, FALSE, FALSE)
    /\ em_emitters = [i \in 1..MaxEmitters |-> Free]
    /\ em_tasks = <<>>
    /\ em_last = [op |-> "none", dt |-> 0, hit |-> NoHit]
    /\ IxIdle

\* Editor::renderResourcePicker: one frame, the user clicking an entry or none
IxRenderResourcePicker ==
    /\ ar_pc = "open"
    /\ Running
    /\ ix_contains' = TRUE
    /\ \E click \in -1..(Len(ar_archive.resources) - 1) :
         ed_selected' = IF click # -1 THEN click ELSE IF ix_contains THEN ed_selected ELSE -1
    /\ UNCHANGED <<ar_file, ar_pc, ar_archive, ix_use>>
    /\ UNCHANGED <<rngVars, emVars, bhVars, anVars, drVars, cliVars, txVars, fzVars, rbVars, fqVars, pjVars, fmVars, hlVars, itVars, olVars, rcVars>>

\* Editor::playEmitterAction(spawnType), without the guard of a caller
IxPlay(spawnType) ==
    /\ ar_pc = "open"
    /\ Running
    /\ FreeSlots(em_emitters) # {}
    /\ ix_contains' = TRUE
    /\ ed_selected' = SelectedIndex
    /\ \E outcome \in Outcomes(SelectedIndex, Len(ar_archive.resources)) :
         /\ ix_use' = [op |-> "play", index |-> SelectedIndex,
                       count |-> Len(ar_archive.resources), outcome |-> outcome]
         /\ IF outcome = "stopped"
            THEN UNCHANGED <<em_emitters, em_tasks, em_last>>
            ELSE /\ em_emitters' = addEmitter(em_emitters, spawnType = "Looped")
                 /\ IF spawnType = "Interval"
                    THEN /\ Len(em_tasks) < MaxTasks
                         /\ em_tasks' = Append(em_tasks,
                                [resourceIndex |-> SelectedIndex, editorID |-> ActiveEditor])
                    ELSE UNCHANGED em_tasks
                 /\ em_last' = [op |-> "play", dt |-> 0, hit |-> NoHit]
    /\ UNCHANGED <<ar_file, ar_pc, ar_archive, em_res>>
    /\ UNCHANGED <<rngVars, bhVars, anVars, drVars, cliVars, txVars, fzVars, rbVars, fqVars, pjVars, fmVars, hlVars, itVars, olVars, rcVars>>

\* Editor::renderResourceEditor: the "Play Emitter" button, shown only while
\* m_selectedResources[id] != -1
IxPlayButton ==
    /\ ix_contains
    /\ ed_selected # -1
    /\ \E spawnType \in {"SingleShot", "Looped", "Interval"} : IxPlay(spawnType)

\* Application: the PlayEmitter / PlayEmitterLooped key binding and menu item
IxPlayKeybind == \E spawnType \in {"SingleShot", "Looped"} : IxPlay(spawnType)

\* Editor::updateParticles(deltaTime): the due interval tasks, then the tick
IxUpdateParticles ==
    /\ ar_pc = "open"
    /\ Running
    /\ \E due \in SUBSET (1..Len(em_tasks)) :
         /\ Cardinality(DueTasks(em_tasks, due)) <= Cardinality(FreeSlots(em_emitters))
         /\ LET fired == DueTasks(em_tasks, due)
                count == Len(ar_archive.resources)
                bad   == {i \in fired : ~InBounds(em_tasks[i].resourceIndex, count)}
            IN  \E outcome \in (IF bad = {} THEN {"ok"} ELSE {"stopped", "garbage"}) :
                  /\ ix_use' = IF fired = {} THEN ix_use
                               ELSE LET i == CHOOSE k \in fired : bad # {} => k \in bad
                                    IN  [op |-> "task", index |-> em_tasks[i].resourceIndex,
                                         count |-> count, outcome |-> outcome]
                  /\ IF outcome = "stopped"
                     THEN UNCHANGED <<em_emitters, em_last>>
                     ELSE LET ems == ParticleSystemUpdate(em_res,
                                         FireTasks(em_emitters, em_tasks, due, 1), 1, NoHit)
                          IN  /\ \A i \in DOMAIN ems :
                                    /\ ems[i].age <= MaxAge
                                    /\ Len(ems[i].particles) <= MaxParticles
                              /\ em_emitters' = ems
                              /\ em_last' = [op |-> "update", dt |-> 1, hit |-> NoHit]
    /\ UNCHANGED <<em_res, em_tasks, ix_contains>>
    /\ UNCHANGED <<rngVars, arVars, bhVars, anVars, drVars, cliVars, txVars, fzVars, rbVars, fqVars, pjVars, fmVars, hlVars, itVars, olVars, rcVars>>

IxNext ==
    \/ OpenEditor
    \/ IxRenderResourcePicker
    \/ IxPlayButton
    \/ IxPlayKeybind
    \/ IxUpdateParticles
    \/ KillEmitters

(***************************************************************************)
(* Two runs of the program side by side.  Each has its own SPLRandom       *)
(* instance, seeded once from std::random_device in the constructor; the   *)
(* mt19937_64 engine is a function from generator state to (draw, next     *)
(* state), here a small linear congruential step.  One emitter per run is  *)
(* ticked with the same dt values.                                         *)
(***************************************************************************)
GenMod == 16
DrawRange == 4
MaxTicks == 3

DetResource == SimResource(4, 3, 1, 1, 0, FALSE, FALSE, FALSE)

\* SPLRandom(): m_gen(m_rd()); rd is what the device would hand out next
NewInstance(seed, rd) == [gen |-> seed, rd |-> rd]

\* a generator that asks std::random_device on every draw
dist32_FromDevice(inst) ==
    [value |-> inst.rd % DrawRange,
     inst |-> [inst EXCEPT !.gen = (5 * @ + 3) % GenMod]]

\* SPLRandom::dist32: m_dist32(m_gen)
dist32(inst) ==
    [value |-> inst.gen % DrawRange,
     inst |-> [inst EXCEPT !.gen = (5 * @ + 3) % GenMod]]

\* step 2: every new particle draws its initial velocity, in spawn order
RECURSIVE InitParticles(_, _, _, _)
InitParticles(new, i, inst, acc) ==
    IF i > Len(new) THEN [pool |-> acc, inst |-> inst]
    ELSE LET d == dist32(inst)
         IN  InitParticles(new, i + 1, d.inst,
                 Append(acc, [life |-> new[i].life, lifeTime |-> new[i].lifeTime,
                              born |-> new[i].born, vel |-> d.value]))

\* step 3: the Random behaviour adds a drawn impulse to every particle of the
\* pool, in insertion order
RECURSIVE ApplyRandom(_, _, _, _)
ApplyRandom(pool, i, inst, acc) ==
    IF i > Len(pool) THEN [pool |-> acc, inst |-> inst]
    ELSE LET d == dist32(inst)
         IN  ApplyRandom(pool, i + 1, d.inst,
                 Append(acc, [pool[i] EXCEPT !.vel = (@ + d.value) % (2 * DrawRange)]))

NewRun(seed, rd) == [seed |-> seed, inst |-> NewInstance(seed, rd), age |-> 0, pool |-> <<>>]

\* SPLEmitter::update for a tick of dt, with the draws it makes
DetUpdate(res, run, dt) ==
    LET age1 == run.age + dt
        born == InitParticles(Emit(res, run, age1), 1, run.inst, <<>>)
        moved == ApplyRandom(AdvanceLife(run.pool \o born.pool, dt), 1, born.inst, <<>>)
    IN  [run EXCEPT !.age = age1, !.pool = Retire(moved.pool), !.inst = moved.inst]

NoRuns == [pc |-> "idle", a |-> NewRun(0, 0), b |-> NewRun(0, 0), ticks |-> 0]

DrIdle == dr_runs = NoRuns

DrInit ==
    dr_runs \in {[pc |-> "constructed", a |-> NewRun(sa, ra), b |-> NewRun(sb, rb),
                  ticks |-> 0] :
                    sa \in 0..(GenMod - 1), sb \in 0..(GenMod - 1),
                    ra \in 0..1, rb \in 0..1}

\* both runs spawn one emitter from the same resource
DrSpawn ==
    /\ dr_runs.pc = "constructed"
    /\ dr_runs' = [dr_runs EXCEPT !.pc = "spawned"]
    /\ UNCHANGED <<rngVars, arVars, emVars, bhVars, anVars, ixVars, cliVars, txVars, fzVars, rbVars, fqVars, pjVars, fmVars, hlVars, itVars, olVars, rcVars>>

\* both runs apply update(dt) with the same dt
DrTick ==
    /\ dr_runs.pc = "spawned"
    /\ dr_runs.ticks < MaxTicks
    /\ \E dt \in 1..MaxDt :
         dr_runs' = [dr_runs EXCEPT !.a = DetUpdate(DetResource, @, dt),
                                    !.b = DetUpdate(DetResource, @, dt),
                                    !.ticks = @ + 1]
    /\ UNCHANGED <<rngVars, arVars, emVars, bhVars, anVars, ixVars, cliVars, txVars, fzVars, rbVars, fqVars, pjVars, fmVars, hlVars, itVars, olVars, rcVars>>

DrNext == DrSpawn \/ DrTick

(***************************************************************************)
(* The command line: nitroefx export [-i <index>...] [-o <output>] <path>. *)
(***************************************************************************)
MaxCliTex == 3
MaxIndices == 2

\* SPLArchive::exportTextures(directory): every texture of the archive
exportTextures(texCount) == 0..(texCount - 1)

\* SPLArchive::exportTexture(index, path)
exportTexture(index) == {index}

\* Application::runCli, subcommand "export"
ExportCommand(indices, valid, texCount, outputIsFile) ==
    IF ~valid THEN [rc |-> 1, exported |-> {}]
    ELSE IF indices = <<>> THEN [rc |-> 0, exported |-> exportTextures(texCount)]
    ELSE IF Len(indices) = 1
         THEN IF indices[1] < 0 \/ indices[1] >= texCount
              THEN [rc |-> 1, exported |-> {}]
              ELSE [rc |-> 0, exported |-> exportTexture(indices[1])]
    ELSE IF outputIsFile THEN [rc |-> 1, exported |-> {}]
    ELSE [rc |-> 0, exported |-> exportTextures(texCount)]

CliIdle ==
    cli_run = [pc |-> "idle", indices |-> <<>>, valid |-> FALSE, texCount |-> 0,
               outputIsFile |-> FALSE, rc |-> 0, exported |-> {}]

CliInit ==
    cli_run \in {[pc |-> "argv", indices |-> ix, valid |-> v, texCount |-> n,
                  outputIsFile |-> f, rc |-> 0, exported |-> {}] :
                    ix \in SeqsUpTo(-1..MaxCliTex, MaxIndices), v \in BOOLEAN,
                    n \in 0..MaxCliTex, f \in BOOLEAN}

\* nitroefx_main: the argument parser accepts one or more -i values
ParseArgs ==
    /\ cli_run.pc = "argv"
    /\ cli_run' = [cli_run EXCEPT !.pc = "parsed"]
    /\ UNCHANGED <<rngVars, arVars, emVars, bhVars, anVars, ixVars, drVars, txVars, fzVars, rbVars, fqVars, pjVars, fmVars, hlVars, itVars, olVars, rcVars>>

RunCli ==
    /\ cli_run.pc = "parsed"
    /\ LET out == ExportCommand(cli_run.indices, cli_run.valid, cli_run.texCount,
                                cli_run.outputIsFile)
       IN  cli_run' = [cli_run EXCEPT !.pc = "done", !.rc = out.rc,
                                      !.exported = out.exported]
    /\ UNCHANGED <<rngVars, arVars, emVars, bhVars, anVars, ixVars, drVars, txVars, fzVars, rbVars, fqVars, pjVars, fmVars, hlVars, itVars, olVars, rcVars>>

CliNext == ParseArgs \/ RunCli

(***************************************************************************)
(* GLTexture::createTexture for every texture of an archive being loaded.  *)
(* The format is the 4-bit field of SPLTextureParamNative.                 *)
(***************************************************************************)
MaxFormat == 15
MaxLoadTex == 2
TexSizes == {8, 16}

\* TextureFormat: None, A3I5, Palette4, Palette16, Palette256, Comp4x4, A5I3, Direct
FormatsConverted == {1, 2, 3, 4, 6, 7}

\* GLTexture::toRGBA: the RGBA buffer (its size in bytes) and whether the
\* case was logged
toRGBA(tex) ==
    IF tex.format \in FormatsConverted
    THEN [size |-> tex.width * tex.height * 4, logged |-> FALSE]
    ELSE [size |-> 0, logged |-> TRUE]

\* GLTexture::createTexture: glTexSubImage2D reads width * height * 4 bytes
\* from textureData.data()
createTexture(tex) ==
    LET textureData == toRGBA(tex)
    IN  [format |-> tex.format, read |-> tex.width * tex.height * 4,
         size |-> textureData.size, logged |-> textureData.logged]

TxIdle == tx_load = [pc |-> "idle", textures |-> <<>>, uploads |-> <<>>]

TxInit ==
    tx_load \in {[pc |-> "loading", textures |-> ts, uploads |-> <<>>] :
                    ts \in UNION {[1..k -> [format : 0..MaxFormat, width : TexSizes,
                                            height : {8}]] : k \in 1..MaxLoadTex}}

\* the archive constructor creates the GPU texture of the next texture; a
\* read past the end of the buffer either stops the process or uploads
\* whatever lies there
LoadTexture ==
    /\ tx_load.pc = "loading"
    /\ LET i == Len(tx_load.uploads) + 1
           up == createTexture(tx_load.textures[i])
       IN  \E outcome \in (IF up.read <= up.size THEN {"ok"} ELSE {"stopped", "garbage"}) :
             tx_load' = [tx_load EXCEPT
                           !.uploads = Append(@, up),
                           !.pc = IF outcome = "stopped" THEN "stopped"
                                  ELSE IF i = Len(tx_load.textures) THEN "loaded"
                                  ELSE "loading"]
    /\ UNCHANGED <<rngVars, arVars, emVars, bhVars, anVars, ixVars, drVars, cliVars, fzVars, rbVars, fqVars, pjVars, fmVars, hlVars, itVars, olVars, rcVars>>

\* the loaded archive is used, then dropped
UnloadTextures ==
    /\ tx_load.pc = "loaded"
    /\ tx_load' = [tx_load EXCEPT !.pc = "unloaded"]
    /\ UNCHANGED <<rngVars, arVars, emVars, bhVars, anVars, ixVars, drVars, cliVars, fzVars, rbVars, fqVars, pjVars, fmVars, hlVars, itVars, olVars, rcVars>>

TxNext == LoadTexture \/ UnloadTextures

(***************************************************************************)
(* The fuzzy file index of ProjectManager and its std::mutex m_fuzzyMutex, *)
(* used by the UI thread (rename, updateFuzzyResults) and by the file      *)
(* watcher's thread (FileWatchListener::handleFileAction).  std::mutex is  *)
(* not recursive: lock() by the thread that owns it is undefined, the      *)
(* thread then blocks for ever or the process is terminated.               *)
(***************************************************************************)
Threads == {"ui", "watcher"}
Paths == {"a", "b"}

Resting == [pc |-> "idle", old |-> "a", new |-> "a", nested |-> FALSE]

FzIdle ==
    /\ fz_files = {}
    /\ fz_index = {}
    /\ fz_owner = "none"
    /\ fz_pc = [t \in Threads |-> Resting]

FzInit ==
    /\ fz_files \in SUBSET Paths
    /\ fz_index \in SUBSET Paths
    /\ fz_owner = "none"
    /\ fz_pc = [t \in Threads |-> Resting]

At(t, pc) == fz_pc[t].pc = pc
Goto(t, pc) == fz_pc' = [fz_pc EXCEPT ![t].pc = pc]
Return(t) == fz_pc' = [fz_pc EXCEPT ![t] = Resting]

\* std::scoped_lock lock(m_fuzzyMutex): the lock can be taken
Lock(t) == fz_owner = "none"

\* onFileMoved(parentDir, oldName, newName) -> fuzzyMovePath(oldPath, newPath)
CallMove(t) ==
    /\ At(t, "idle")
    /\ \E old \in Paths : \E new \in Paths \ {old} :
         fz_pc' = [fz_pc EXCEPT ![t] = [pc |-> "move", old |-> old, new |-> new,
                                        nested |-> FALSE]]
    /\ UNCHANGED <<fz_files, fz_index, fz_owner>>
    /\ UNCHANGED <<rngVars, arVars, emVars, bhVars, anVars, ixVars, drVars, cliVars, txVars, rbVars, fqVars, pjVars, fmVars, hlVars, itVars, olVars, rcVars>>

\* onFileAdded(parentDir, name) -> fuzzyAddPath(fullPath)
CallAdd(t) ==
    /\ At(t, "idle")
    /\ \E new \in Paths :
         fz_pc' = [fz_pc EXCEPT ![t] = [pc |-> "add", old |-> new, new |-> new,
                                        nested |-> FALSE]]
    /\ UNCHANGED <<fz_files, fz_index, fz_owner>>
    /\ UNCHANGED <<rngVars, arVars, emVars, bhVars, anVars, ixVars, drVars, cliVars, txVars, rbVars, fqVars, pjVars, fmVars, hlVars, itVars, olVars, rcVars>>

\* updateFuzzyResults(): lock, read, unlock
CallUpdateFuzzyResults(t) ==
    /\ At(t, "idle")
    /\ Goto(t, "query")
    /\ UNCHANGED <<fz_files, fz_index, fz_owner>>
    /\ UNCHANGED <<rngVars, arVars, emVars, bhVars, anVars, ixVars, drVars, cliVars, txVars, rbVars, fqVars, pjVars, fmVars, hlVars, itVars, olVars, rcVars>>

UpdateFuzzyResults(t) ==
    /\ \/ /\ At(t, "query") /\ Lock(t)
          /\ fz_owner' = t /\ Goto(t, "query_locked")
       \/ /\ At(t, "query_locked")
          /\ fz_owner' = "none" /\ Return(t)
    /\ UNCHANGED <<fz_files, fz_index>>
    /\ UNCHANGED <<rngVars, arVars, emVars, bhVars, anVars, ixVars, drVars, cliVars, txVars, rbVars, fqVars, pjVars, fmVars, hlVars, itVars, olVars, rcVars>>

\* fuzzyMovePath: std::scoped_lock lock(m_fuzzyMutex)
MoveLock(t) ==
    /\ At(t, "move") /\ Lock(t)
    /\ fz_owner' = t /\ Goto(t, "move_locked")
    /\ UNCHANGED <<fz_files, fz_index>>
    /\ UNCHANGED <<rngVars, arVars, emVars, bhVars, anVars, ixVars, drVars, cliVars, txVars, rbVars, fqVars, pjVars, fmVars, hlVars, itVars, olVars, rcVars>>

\* fuzzyMovePath under its lock
MoveBody(t) ==
    /\ At(t, "move_locked")
    /\ IF fz_pc[t].old \notin fz_index
       THEN /\ fz_pc' = [fz_pc EXCEPT ![t].pc = "add", ![t].nested = TRUE]
            /\ UNCHANGED <<fz_index, fz_owner>>
       ELSE /\ fz_index' = IF fz_pc[t].new \in fz_index THEN fz_index
                           ELSE (fz_index \ {fz_pc[t].old}) \cup {fz_pc[t].new}
            /\ fz_owner' = "none"
            /\ Return(t)
    /\ UNCHANGED fz_files
    /\ UNCHANGED <<rngVars, arVars, emVars, bhVars, anVars, ixVars, drVars, cliVars, txVars, rbVars, fqVars, pjVars, fmVars, hlVars, itVars, olVars, rcVars>>

\* what a return from fuzzyAddPath leaves: the caller's lock, if any, is
\* released when fuzzyMovePath returns right after
AfterAdd(t) ==
    /\ fz_owner' = IF fz_pc[t].nested THEN "none" ELSE fz_owner
    /\ Return(t)

\* fuzzyAddPath before its lock: only regular files are indexed
AddEnter(t) ==
    /\ At(t, "add")
    /\ IF fz_pc[t].new \notin fz_files
       THEN AfterAdd(t)
       ELSE Goto(t, "add_lock") /\ UNCHANGED fz_owner
    /\ UNCHANGED <<fz_files, fz_index>>
    /\ UNCHANGED <<rngVars, arVars, emVars, bhVars, anVars, ixVars, drVars, cliVars, txVars, rbVars, fqVars, pjVars, fmVars, hlVars, itVars, olVars, rcVars>>

\* fuzzyAddPath: std::scoped_lock lock(m_fuzzyMutex)
AddLock(t) ==
    /\ At(t, "add_lock")
    /\ \/ /\ Lock(t)
          /\ fz_owner' = t /\ Goto(t, "add_locked")
       \/ /\ fz_owner = t
          /\ \/ Goto(t, "blocked")
             \/ fz_pc' = [u \in Threads |-> [fz_pc[u] EXCEPT !.pc = "terminated"]]
          /\ UNCHANGED fz_owner
    /\ UNCHANGED <<fz_files, fz_index>>
    /\ UNCHANGED <<rngVars, arVars, emVars, bhVars, anVars, ixVars, drVars, cliVars, txVars, rbVars, fqVars, pjVars, fmVars, hlVars, itVars, olVars, rcVars>>

\* fuzzyAddPath under its lock
AddBody(t) ==
    /\ At(t, "add_locked")
    /\ fz_index' = fz_index \cup {fz_pc[t].new}
    /\ fz_owner' = "none"
    /\ Return(t)
    /\ UNCHANGED fz_files
    /\ UNCHANGED <<rngVars, arVars, emVars, bhVars, anVars, ixVars, drVars, cliVars, txVars, rbVars, fqVars, pjVars, fmVars, hlVars, itVars, olVars, rcVars>>

Steps(t) ==
    \/ UpdateFuzzyResults(t)
    \/ MoveLock(t)
    \/ MoveBody(t)
    \/ AddEnter(t)
    \/ AddLock(t)
    \/ AddBody(t)

FzNext ==
    \E t \in Threads :
        \/ CallMove(t)
        \/ CallAdd(t)
        \/ CallUpdateFuzzyResults(t)
        \/ UpdateFuzzyResults(t)
        \/ MoveLock(t)
        \/ MoveBody(t)
        \/ AddEnter(t)
        \/ AddLock(t)
        \/ AddBody(t)

\* a thread inside a call keeps being scheduled, and a thread waiting for a
\* mutex that is free again and again gets it
FzFairness == \A t \in Threads : SF_vars(Steps(t))

(***************************************************************************)
(* The background build of the fuzzy index (startFuzzyIndexingAsync ->     *)
(* rebuildFuzzyIndex on m_fuzzyIndexThread) next to the file watcher's     *)
(* callbacks.  The scan fills newFiles without the mutex; only the swap is *)
(* under it.  A section under m_fuzzyMutex is one step here.               *)
(***************************************************************************)
NoBuild == [pc |-> "idle", seen |-> {}, newFiles |-> {}, added |-> {}, removed |-> {}]

RbIdle == rb_build = NoBuild

RbInit == FzInit /\ RbIdle

Building == rb_build.pc = "scanning"

\* startFuzzyIndexingAsync: the thread is started
StartBuild ==
    /\ rb_build.pc = "idle"
    /\ rb_build' = [rb_build EXCEPT !.pc = "scanning"]
    /\ UNCHANGED fzVars
    /\ UNCHANGED <<rngVars, arVars, emVars, bhVars, anVars, ixVars, drVars, cliVars, txVars, fqVars, pjVars, fmVars, hlVars, itVars, olVars, rcVars>>

\* rebuildFuzzyIndex: the directory iterator visits one more path
ScanStep ==
    /\ Building
    /\ \E p \in Paths \ rb_build.seen :
         rb_build' = [rb_build EXCEPT
                        !.seen = @ \cup {p},
                        !.newFiles = IF p \in fz_files THEN @ \cup {p} ELSE @]
    /\ UNCHANGED fzVars
    /\ UNCHANGED <<rngVars, arVars, emVars, bhVars, anVars, ixVars, drVars, cliVars, txVars, fqVars, pjVars, fmVars, hlVars, itVars, olVars, rcVars>>

\* rebuildFuzzyIndex: m_fuzzyFiles.swap(newFiles); m_fuzzyIndex.swap(newIndex)
SwapIndex ==
    /\ Building
    /\ rb_build.seen = Paths
    /\ Lock("indexer")
    /\ fz_index' = rb_build.newFiles
    /\ rb_build' = [rb_build EXCEPT !.pc = "swapped"]
    /\ UNCHANGED <<fz_files, fz_owner, fz_pc>>
    /\ UNCHANGED <<rngVars, arVars, emVars, bhVars, anVars, ixVars, drVars, cliVars, txVars, fqVars, pjVars, fmVars, hlVars, itVars, olVars, rcVars>>

\* a file is created; the watcher calls onFileAdded -> fuzzyAddPath
WatchAdded ==
    /\ rb_build.pc # "swapped"
    /\ Lock("watcher")
    /\ \E p \in Paths \ fz_files :
         /\ fz_files' = fz_files \cup {p}
         /\ fz_index' = fz_index \cup {p}
         /\ rb_build' = IF Building
                        THEN [rb_build EXCEPT !.added = @ \cup {p}, !.removed = @ \ {p}]
                        ELSE rb_build
    /\ UNCHANGED <<fz_owner, fz_pc>>
    /\ UNCHANGED <<rngVars, arVars, emVars, bhVars, anVars, ixVars, drVars, cliVars, txVars, fqVars, pjVars, fmVars, hlVars, itVars, olVars, rcVars>>

\* a file is deleted; the watcher calls onFileDeleted -> fuzzyRemovePath
WatchDeleted ==
    /\ rb_build.pc # "swapped"
    /\ Lock("watcher")
    /\ \E p \in fz_files :
         /\ fz_files' = fz_files \ {p}
         /\ fz_index' = fz_index \ {p}
         /\ rb_build' = IF Building
                        THEN [rb_build EXCEPT !.removed = @ \cup {p}, !.added = @ \ {p}]
                        ELSE rb_build
    /\ UNCHANGED <<fz_owner, fz_pc>>
    /\ UNCHANGED <<rngVars, arVars, emVars, bhVars, anVars, ixVars, drVars, cliVars, txVars, fqVars, pjVars, fmVars, hlVars, itVars, olVars, rcVars>>

RbNext == StartBuild \/ ScanStep \/ SwapIndex \/ WatchAdded \/ WatchDeleted

(***************************************************************************)
(* The fuzzy finder: fzy::hasMatch, fzy::score and                         *)
(* ProjectManager::updateFuzzyResults.  Strings are sequences of           *)
(* characters; scores are counted in twentieths (0.15 = 3/20), the boosted *)
(* best score in four-hundredths (1.15 = 23/20).                           *)
(***************************************************************************)
MaxGap == 14
MaxQuery == 3
QueryChars == {"a", "b", "c"}
Separators == {"/", "\\", "_", "-", " ", "."}

\* fzy: the greedy forward match; the positions (from 0) of the needle's
\* characters in the haystack, as far as the match gets
RECURSIVE GreedyMatch(_, _, _, _)
GreedyMatch(needle, haystack, i, pos) ==
    IF i > Len(haystack) \/ Len(pos) = Len(needle) THEN pos
    ELSE GreedyMatch(needle, haystack, i + 1,
             IF needle[Len(pos) + 1] = haystack[i] THEN Append(pos, i - 1) ELSE pos)

\* fzy::hasMatch
hasMatch(needle, haystack) ==
    needle = <<>> \/ Len(GreedyMatch(needle, haystack, 1, <<>>)) = Len(needle)

RECURSIVE SumUpTo(_, _)
SumUpTo(f, n) == IF n = 0 THEN 0 ELSE f[n] + SumUpTo(f, n - 1)

\* fzy::score, in twentieths
score(needle, haystack) ==
    LET pos == GreedyMatch(needle, haystack, 1, <<>>)
    IN  IF needle = <<>> \/ Len(pos) # Len(needle) THEN 0
        ELSE LET points == [k \in 1..Len(needle) |->
                     20
                     + (IF pos[k] = 0 \/ haystack[pos[k]] \in Separators THEN 40 ELSE 0)
                     + (IF k > 1 /\ pos[k] = pos[k - 1] + 1 THEN 60 ELSE 0)]
                 span == pos[Len(needle)] - pos[1] + 1
             IN  SumUpTo(points, Len(needle)) - 3 * (span - Len(needle))

\* helpers::buildMask: the characters of a string
buildMask(sv) == {sv[i] : i \in 1..Len(sv)}

\* updateFuzzyResults: the best score of a file for the query, in
\* four-hundredths
BestScore(query, f) ==
    LET byName == IF hasMatch(query, f.filenameLower)
                  THEN (IF score(query, f.filenameLower) * 23 > 0
                        THEN score(query, f.filenameLower) * 23 ELSE 0)
                  ELSE 0
    IN  IF byName < 400 /\ hasMatch(query, f.relativeLower)
           /\ score(query, f.relativeLower) * 20 > byName
        THEN score(query, f.relativeLower) * 20
        ELSE byName

\* updateFuzzyResults: the files of the pool that survive the query
Survivors(files, pool, query) ==
    {idx \in pool :
        /\ buildMask(query) \subseteq files[idx].charMask
        /\ BestScore(query, files[idx]) > 0}

\* std::string::starts_with
starts_with(str, prefix) ==
    Len(prefix) <= Len(str) /\ SubSeq(str, 1, Len(prefix)) = prefix

\* updateFuzzyResults
updateFuzzyResults(st, query) ==
    IF Len(st.files) = 0
    THEN [st EXCEPT !.query = query, !.results = {}]
    ELSE IF query = <<>>
    THEN [st EXCEPT !.query = query,
                    !.results = {[index |-> i, score |-> 0] : i \in 1..Len(st.files)},
                    !.prevQuery = <<>>, !.prevCandidates = {}]
    ELSE LET pool == IF st.prevQuery # <<>> /\ starts_with(query, st.prevQuery)
                        /\ st.prevCandidates # {}
                     THEN st.prevCandidates
                     ELSE 1..Len(st.files)
             next == Survivors(st.files, pool, query)
         IN  [st EXCEPT !.query = query,
                        !.results = {[index |-> i, score |-> BestScore(query, st.files[i])] :
                                        i \in next},
                        !.prevQuery = query, !.prevCandidates = next]

\* a file of the project root, as fuzzyAddPath enters it
FuzzyFileEntry(name) ==
    [filenameLower |-> name, relativeLower |-> name, charMask |-> buildMask(name)]

FileNames ==
    {lead \o <<"a">> \o [i \in 1..gap |-> "z"] \o tail :
        lead \in {<<>>, <<"z">>}, gap \in {0, MaxGap},
        tail \in {<<"b">>, <<"b", "c">>, <<"c">>}}

NoFinder == [files |-> <<>>, query |-> <<>>, prevQuery |-> <<>>,
             prevCandidates |-> {}, results |-> {}]

FqIdle == fq_find = NoFinder

FqInit ==
    fq_find \in {[NoFinder EXCEPT !.files = <<FuzzyFileEntry(n1), FuzzyFileEntry(n2)>>] :
                    n1 \in FileNames, n2 \in FileNames}

\* renderFuzzyFinder: a character is typed into the query field
TypeChar ==
    /\ Len(fq_find.files) > 0
    /\ Len(fq_find.query) < MaxQuery
    /\ \E c \in QueryChars :
         fq_find' = updateFuzzyResults(fq_find, Append(fq_find.query, c))
    /\ UNCHANGED <<rngVars, arVars, emVars, bhVars, anVars, ixVars, drVars, cliVars, txVars, fzVars, rbVars, pjVars, fmVars, hlVars, itVars, olVars, rcVars>>

\* renderFuzzyFinder: the last character of the query is deleted
DeleteChar ==
    /\ Len(fq_find.query) > 0
    /\ fq_find' = updateFuzzyResults(fq_find,
                      SubSeq(fq_find.query, 1, Len(fq_find.query) - 1))
    /\ UNCHANGED <<rngVars, arVars, emVars, bhVars, anVars, ixVars, drVars, cliVars, txVars, fzVars, rbVars, pjVars, fmVars, hlVars, itVars, olVars, rcVars>>

FqNext == TypeChar \/ DeleteChar

(***************************************************************************)
(* Projects and the cache file of their fuzzy index (openProject,          *)
(* closeProject, loadFuzzyIndex, saveFuzzyIndex).  m_projectPath is ""     *)
(* while no project is open; a cache file is <<>> while it does not exist  *)
(* and <<files>> once it was written.                                      *)
(***************************************************************************)
Projects == {"p1", "p2"}
NoCache == <<>>

NoClose == [proceeded |-> FALSE, project |-> "", index |-> {}]

PjIdle ==
    pj_state = [projectPath |-> "", fuzzyFiles |-> {},
                cache |-> [p \in Projects |-> NoCache], op |-> "none", last |-> NoClose]

PjInit == PjIdle

\* ProjectManager::saveFuzzyIndex: the cache files afterwards
saveFuzzyIndex(projectPath, fuzzyFiles, cache) ==
    IF projectPath = "" THEN cache
    ELSE [cache EXCEPT ![projectPath] = <<fuzzyFiles>>]

\* ProjectManager::closeProject(force), canClose being the editors' answer
closeProject(st, force, canClose) ==
    IF canClose \/ force
    THEN LET projectPath == ""
         IN  [st EXCEPT
                !.projectPath = projectPath,
                !.cache = saveFuzzyIndex(projectPath, st.fuzzyFiles, st.cache),
                !.fuzzyFiles = {},
                !.op = "close",
                !.last = [proceeded |-> TRUE, project |-> st.projectPath,
                          index |-> st.fuzzyFiles]]
    ELSE [st EXCEPT !.op = "close",
                    !.last = [proceeded |-> FALSE, project |-> st.projectPath,
                              index |-> st.fuzzyFiles]]

\* ProjectManager::openProject(path): a project that is open is closed
\* first; the index is loaded from a cache file that is up to date, or else
\* built from the files on disk and saved
OpenProject ==
    /\ \E path \in Projects, onDisk \in SUBSET Paths, upToDate \in BOOLEAN :
         LET st == IF pj_state.projectPath # "" THEN closeProject(pj_state, TRUE, TRUE)
                   ELSE pj_state
             loaded == upToDate /\ st.cache[path] # NoCache
             files == IF loaded THEN st.cache[path][1] ELSE onDisk
         IN  pj_state' = [st EXCEPT
                            !.projectPath = path,
                            !.fuzzyFiles = files,
                            !.cache = IF loaded THEN @ ELSE saveFuzzyIndex(path, files, @),
                            !.op = "open"]
    /\ UNCHANGED <<rngVars, arVars, emVars, bhVars, anVars, ixVars, drVars, cliVars, txVars, fzVars, rbVars, fqVars, fmVars, hlVars, itVars, olVars, rcVars>>

\* the watcher's onFileAdded / onFileDeleted on the open project
PjFileEvent ==
    /\ pj_state.projectPath # ""
    /\ \E p \in Paths :
         pj_state' = [pj_state EXCEPT
                        !.fuzzyFiles = IF p \in @ THEN @ \ {p} ELSE @ \cup {p},
                        !.op = "event"]
    /\ UNCHANGED <<rngVars, arVars, emVars, bhVars, anVars, ixVars, drVars, cliVars, txVars, fzVars, rbVars, fqVars, fmVars, hlVars, itVars, olVars, rcVars>>

CloseProject ==
    /\ pj_state.projectPath # ""
    /\ \E force \in BOOLEAN, canClose \in BOOLEAN :
         pj_state' = closeProject(pj_state, force, canClose)
    /\ UNCHANGED <<rngVars, arVars, emVars, bhVars, anVars, ixVars, drVars, cliVars, txVars, fzVars, rbVars, fqVars, fmVars, hlVars, itVars, olVars, rcVars>>

PjNext == OpenProject \/ PjFileEvent \/ CloseProject

(***************************************************************************)
(* The fuzzy index as the code stores it: m_fuzzyFiles is a vector of      *)
(* entries (here their relative paths), m_fuzzyIndex an unordered_map from *)
(* relative path to a 0-based position in the vector.                      *)
(***************************************************************************)
RelPaths == {"a", "b", "c", "d"}
MaxScan == 3

\* std::unordered_map: operator[] assignment, erase, contains
MapSet(m, k, v) == [x \in DOMAIN m \cup {k} |-> IF x = k THEN v ELSE m[x]]
MapErase(m, k) == [x \in DOMAIN m \ {k} |-> m[x]]
contains(m, k) == k \in DOMAIN m

EmptyMap == [x \in {} |-> 0]

FmIdle ==
    fm_state = [files |-> <<>>, index |-> EmptyMap, built |-> FALSE,
                hung |-> FALSE, op |-> "none"]

FmInit == FmIdle

\* ProjectManager::fuzzyAddPath with p a regular file of the project
fuzzyAddPath(st, rel) ==
    IF contains(st.index, rel) THEN st
    ELSE [st EXCEPT !.index = MapSet(@, rel, Len(st.files)),
                    !.files = Append(@, rel)]

\* fuzzyRemovePath without the statement that re-points the key of the entry
\* moved into the hole
fuzzyRemovePath_NoFixup(st, rel) ==
    IF ~contains(st.index, rel) THEN st
    ELSE LET idx == st.index[rel]
             size == Len(st.files)
             swapped == IF idx + 1 # size
                        THEN [st.files EXCEPT ![idx + 1] = st.files[size],
                                              ![size] = st.files[idx + 1]]
                        ELSE st.files
         IN  [st EXCEPT !.files = SubSeq(swapped, 1, size - 1),
                        !.index = MapErase(st.index, rel)]

\* ProjectManager::fuzzyRemovePath: the last entry fills the hole
fuzzyRemovePath(st, rel) ==
    IF ~contains(st.index, rel) THEN st
    ELSE LET idx == st.index[rel]
             size == Len(st.files)
             swapped == IF idx + 1 # size
                        THEN [st.files EXCEPT ![idx + 1] = st.files[size],
                                              ![size] = st.files[idx + 1]]
                        ELSE st.files
             fixed == IF idx + 1 # size
                      THEN MapSet(st.index, swapped[idx + 1], idx)
                      ELSE st.index
         IN  [st EXCEPT !.files = SubSeq(swapped, 1, size - 1),
                        !.index = MapErase(fixed, rel)]

\* ProjectManager::fuzzyMovePath once oldRel is known to be indexed
fuzzyMovePath(st, oldRel, newRel) ==
    IF contains(st.index, newRel) THEN [st EXCEPT !.built = FALSE]
    ELSE LET pos == st.index[oldRel]
         IN  [st EXCEPT !.files = [@ EXCEPT ![pos + 1] = newRel],
                        !.index = MapSet(MapErase(@, oldRel), newRel, pos)]

RECURSIVE rebuildScan(_, _, _)
\* the scan of rebuildFuzzyIndex over the files found, in the order found
rebuildScan(found, newFiles, newIndex) ==
    IF found = <<>> THEN [files |-> newFiles, index |-> newIndex]
    ELSE IF contains(newIndex, Head(found))
         THEN rebuildScan(Tail(found), newFiles, newIndex)
         ELSE rebuildScan(Tail(found), Append(newFiles, Head(found)),
                          MapSet(newIndex, Head(found), Len(newFiles)))

FmAdd ==
    /\ ~fm_state.hung
    /\ \E rel \in RelPaths, isRegularFile \in BOOLEAN :
         fm_state' = IF isRegularFile
                     THEN [fuzzyAddPath(fm_state, rel) EXCEPT !.op = "add"]
                     ELSE [fm_state EXCEPT !.op = "add"]
    /\ UNCHANGED <<rngVars, arVars, emVars, bhVars, anVars, ixVars, drVars, cliVars, txVars, fzVars, rbVars, fqVars, pjVars, hlVars, itVars, olVars, rcVars>>

FmRemove ==
    /\ ~fm_state.hung
    /\ \E rel \in RelPaths :
         fm_state' = [fuzzyRemovePath(fm_state, rel) EXCEPT
                        !.op = IF contains(fm_state.index, rel)
                                  /\ fm_state.index[rel] + 1 # Len(fm_state.files)
                               THEN "removeSwap" ELSE "remove"]
    /\ UNCHANGED <<rngVars, arVars, emVars, bhVars, anVars, ixVars, drVars, cliVars, txVars, fzVars, rbVars, fqVars, pjVars, hlVars, itVars, olVars, rcVars>>

\* fuzzyMovePath: when oldRel is not indexed it calls fuzzyAddPath while
\* holding m_fuzzyMutex; locking a std::mutex twice is undefined: the call
\* goes through, throws, or never returns
FmMove ==
    /\ ~fm_state.hung
    /\ \E oldRel \in RelPaths, newRel \in RelPaths :
         IF contains(fm_state.index, oldRel)
         THEN fm_state' = [fuzzyMovePath(fm_state, oldRel, newRel) EXCEPT !.op = "move"]
         ELSE \E relock \in {"through", "throws", "hangs"} :
                fm_state' =
                    CASE relock = "through" ->
                           [fuzzyAddPath(fm_state, newRel) EXCEPT !.op = "moveAdd"]
                      [] relock = "throws" -> [fm_state EXCEPT !.op = "moveAdd"]
                      [] relock = "hangs" -> [fm_state EXCEPT !.op = "moveAdd", !.hung = TRUE]
    /\ UNCHANGED <<rngVars, arVars, emVars, bhVars, anVars, ixVars, drVars, cliVars, txVars, fzVars, rbVars, fqVars, pjVars, hlVars, itVars, olVars, rcVars>>

FmRebuild ==
    /\ ~fm_state.hung
    /\ \E found \in SeqsUpTo(RelPaths, MaxScan) :
         LET new == rebuildScan(found, <<>>, EmptyMap)
         IN  fm_state' = [fm_state EXCEPT !.files = new.files, !.index = new.index,
                                          !.built = TRUE, !.op = "rebuild"]
    /\ UNCHANGED <<rngVars, arVars, emVars, bhVars, anVars, ixVars, drVars, cliVars, txVars, fzVars, rbVars, fqVars, pjVars, hlVars, itVars, olVars, rcVars>>

FmNext == FmAdd \/ FmRemove \/ FmMove \/ FmRebuild

(***************************************************************************)
(* The host loop of Application::run.  Time is counted in tenths of a      *)
(* second; calls holds the dt values the last iteration passed to          *)
(* Editor::updateParticles, passed the sum of all dt values passed so far. *)
(***************************************************************************)
IdleThreshold == 5
MaxDelta == 3
MaxElapsed == 12

NoFrame == [delta |-> 0, minimized |-> FALSE, focused |-> TRUE,
            activeEmitters |-> FALSE, before |-> 0, calls |-> <<>>]

HlIdle ==
    hl_state = [m_idleAccumulator |-> 0, passed |-> 0, elapsed |-> 0,
                op |-> "none", last |-> NoFrame]

HlInit == HlIdle

RECURSIVE SumSeq(_)
SumSeq(q) == IF q = <<>> THEN 0 ELSE Head(q) + SumSeq(Tail(q))

\* the iteration without the reset of the accumulator
runIteration_NoReset(st, delta, minimized, focused, activeEmitters) ==
    LET idle == minimized \/ (~focused /\ ~activeEmitters)
        acc == st.m_idleAccumulator + delta
        calls == IF ~idle \/ activeEmitters THEN <<delta>>
                 ELSE IF acc > IdleThreshold THEN <<acc>> ELSE <<>>
    IN  [st EXCEPT
           !.m_idleAccumulator = IF ~idle \/ activeEmitters THEN @ ELSE acc,
           !.passed = @ + SumSeq(calls),
           !.elapsed = @ + delta,
           !.op = "frame",
           !.last = [delta |-> delta, minimized |-> minimized, focused |-> focused,
                     activeEmitters |-> activeEmitters,
                     before |-> st.m_idleAccumulator, calls |-> calls]]

\* one iteration of the while loop of Application::run
runIteration(st, delta, minimized, focused, activeEmitters) ==
    LET idle == minimized \/ (~focused /\ ~activeEmitters)
        acc == st.m_idleAccumulator + delta
        calls == IF ~idle \/ activeEmitters THEN <<delta>>
                 ELSE IF acc > IdleThreshold THEN <<acc>> ELSE <<>>
    IN  [st EXCEPT
           !.m_idleAccumulator = IF ~idle \/ activeEmitters THEN @
                                 ELSE IF acc > IdleThreshold THEN 0 ELSE acc,
           !.passed = @ + SumSeq(calls),
           !.elapsed = @ + delta,
           !.op = "frame",
           !.last = [delta |-> delta, minimized |-> minimized, focused |-> focused,
                     activeEmitters |-> activeEmitters,
                     before |-> st.m_idleAccumulator, calls |-> calls]]

HlFrame ==
    /\ \E delta \in 0..MaxDelta, minimized \in BOOLEAN, focused \in BOOLEAN,
          activeEmitters \in BOOLEAN :
         /\ hl_state.elapsed + delta <= MaxElapsed
         /\ hl_state' = runIteration(hl_state, delta, minimized, focused, activeEmitters)
    /\ UNCHANGED <<rngVars, arVars, emVars, bhVars, anVars, ixVars, drVars, cliVars, txVars, fzVars, rbVars, fqVars, pjVars, fmVars, itVars, olVars, rcVars>>

HlNext == HlFrame

(***************************************************************************)
(* Interval spawn tasks over several editors (Editor::updateParticles,     *)
(* playEmitterAction, killEmitters).  An editor is its unique ID; now is   *)
(* std::chrono::steady_clock in whole units; spawned lists the emitters    *)
(* the last operation added, each with the editor it was added to.         *)
(***************************************************************************)
EditorIDs == {"e1", "e2"}
NoEditor == "none"
TaskResources == 0..1
TaskIntervals == {1, 2}
MaxNow == 2
MaxSpawnTasks == 2

ItIdle ==
    it_state = [active |-> NoEditor, now |-> 0, tasks |-> <<>>,
                op |-> "none", spawned |-> <<>>]

ItInit == ItIdle

\* the condition of the task loop with the editor test left out
taskDue_AnyEditor(task, editorID, now) ==
    now - task.time >= task.interval

\* the condition of the task loop of Editor::updateParticles
taskDue(task, editorID, now) ==
    task.editorID = editorID /\ now - task.time >= task.interval

RECURSIVE runTasks(_, _, _, _, _)
\* the task loop of Editor::updateParticles from task i on
runTasks(tasks, spawned, editorID, now, i) ==
    IF i > Len(tasks) THEN [tasks |-> tasks, spawned |-> spawned]
    ELSE IF taskDue(tasks[i], editorID, now)
         THEN runTasks([tasks EXCEPT ![i].time = now],
                       Append(spawned, [editorID |-> editorID,
                                        resourceIndex |-> tasks[i].resourceIndex,
                                        looped |-> FALSE]),
                       editorID, now, i + 1)
         ELSE runTasks(tasks, spawned, editorID, now, i + 1)

\* ProjectManager's active editor changes (a tab is selected or closed)
ItSetActive ==
    /\ \E e \in EditorIDs \cup {NoEditor} :
         /\ e # it_state.active
         /\ it_state' = [it_state EXCEPT !.active = e, !.op = "activate", !.spawned = <<>>]
    /\ UNCHANGED <<rngVars, arVars, emVars, bhVars, anVars, ixVars, drVars, cliVars, txVars, fzVars, rbVars, fqVars, pjVars, fmVars, hlVars, olVars, rcVars>>

\* the steady clock advances
ItTimePasses ==
    /\ it_state.now < MaxNow
    /\ it_state' = [it_state EXCEPT !.now = @ + 1, !.op = "time", !.spawned = <<>>]
    /\ UNCHANGED <<rngVars, arVars, emVars, bhVars, anVars, ixVars, drVars, cliVars, txVars, fzVars, rbVars, fqVars, pjVars, fmVars, hlVars, olVars, rcVars>>

\* Editor::updateParticles(deltaTime)
ItUpdateParticles ==
    /\ IF it_state.active = NoEditor
       THEN it_state' = [it_state EXCEPT !.op = "update", !.spawned = <<>>]
       ELSE LET e == it_state.active
                ran == runTasks(it_state.tasks, <<>>, e, it_state.now, 1)
            IN  it_state' = [it_state EXCEPT
                               !.tasks = ran.tasks,
                               !.op = "update",
                               !.spawned = ran.spawned]
    /\ UNCHANGED <<rngVars, arVars, emVars, bhVars, anVars, ixVars, drVars, cliVars, txVars, fzVars, rbVars, fqVars, pjVars, fmVars, hlVars, olVars, rcVars>>

\* Editor::playEmitterAction(spawnType) with a resource selected
ItPlayEmitterAction ==
    /\ \E spawnType \in {"SingleShot", "Looped", "Interval"},
          resourceIndex \in TaskResources, m_emitterInterval \in TaskIntervals :
         IF it_state.active = NoEditor
         THEN it_state' = [it_state EXCEPT !.op = "play", !.spawned = <<>>]
         ELSE LET e == it_state.active
              IN  /\ spawnType = "Interval" => Len(it_state.tasks) < MaxSpawnTasks
                  /\ it_state' = [it_state EXCEPT
                        !.tasks = IF spawnType = "Interval"
                                  THEN Append(@, [resourceIndex |-> resourceIndex,
                                                  time |-> it_state.now,
                                                  interval |-> m_emitterInterval,
                                                  editorID |-> e])
                                  ELSE @,
                        !.op = "play",
                        !.spawned = <<[editorID |-> e, resourceIndex |-> resourceIndex,
                                       looped |-> spawnType = "Looped"]>>]
    /\ UNCHANGED <<rngVars, arVars, emVars, bhVars, anVars, ixVars, drVars, cliVars, txVars, fzVars, rbVars, fqVars, pjVars, fmVars, hlVars, olVars, rcVars>>

\* Editor::killEmitters
ItKillEmitters ==
    /\ IF it_state.active = NoEditor
       THEN it_state' = [it_state EXCEPT !.op = "kill", !.spawned = <<>>]
       ELSE LET e == it_state.active
            IN  it_state' = [it_state EXCEPT
                               !.tasks = SelectSeq(@, LAMBDA t : t.editorID # e),
                               !.op = "kill",
                               !.spawned = <<>>]
    /\ UNCHANGED <<rngVars, arVars, emVars, bhVars, anVars, ixVars, drVars, cliVars, txVars, fzVars, rbVars, fqVars, pjVars, fmVars, hlVars, olVars, rcVars>>

ItNext ==
    \/ ItSetActive
    \/ ItTimePasses
    \/ ItUpdateParticles
    \/ ItPlayEmitterAction
    \/ ItKillEmitters

(***************************************************************************)
(* The list of open editors (ProjectManager::openEditor, openTempEditor,   *)
(* closeEditor, closeTempEditor, closeAllEditors, closeProject).  An       *)
(* editor instance is a record with the identity of its shared_ptr;        *)
(* m_activeEditor is an identity or NullEditor.  An editor created by      *)
(* openEditor() without a path has the path "".                            *)
(***************************************************************************)
Instances == {"i1", "i2", "i3", "i4"}
NullEditor == "null"
Destroyed == "destroyed"
EditorPaths == {"p1", "p2"}
MaxOpen == 3

NoOp == [name |-> "none", force |-> FALSE, lostModified |-> FALSE]

OlIdle ==
    ol_state = [openEditors |-> <<>>, activeEditor |-> NullEditor, last |-> NoOp]

OlInit == OlIdle

OpenIds(st) == {st.openEditors[i].id : i \in 1..Len(st.openEditors)}

\* std::make_shared<EditorInstance>: an identity no live pointer has
MakeShared(st) == CHOOSE i \in Instances : i \notin OpenIds(st) \cup {st.activeEditor}

CanMake(st) ==
    /\ Len(st.openEditors) < MaxOpen
    /\ \E i \in Instances : i \notin OpenIds(st) \cup {st.activeEditor}

\* ProjectManager::getEditor(path): the position of the first editor of that
\* path, 0 when there is none
getEditor(st, path) ==
    IF \E i \in 1..Len(st.openEditors) : st.openEditors[i].path = path
    THEN CHOOSE i \in 1..Len(st.openEditors) :
            /\ st.openEditors[i].path = path
            /\ \A j \in 1..(i - 1) : st.openEditors[j].path # path
    ELSE 0

\* std::erase(m_openEditors, editor)
EraseAt(list, pos) == SubSeq(list, 1, pos - 1) \o SubSeq(list, pos + 1, Len(list))

\* ProjectManager::closeEditor(editor, force) on the editor at position pos.
\* The parameter is a reference: when it is an element of m_openEditors
\* itself (aliased), the erase moves the next editor into it, or destroys it
\* when it was the last element; reading a destroyed element is undefined,
\* it reads as the old pointer (stale) or as something else.
closeEditor(st, pos, force, notifyClosing, aliased, stale) ==
    LET editor == st.openEditors[pos]
    IN  IF ~force /\ editor.modified THEN st
        ELSE IF force \/ notifyClosing
        THEN LET erased == EraseAt(st.openEditors, pos)
                 after == IF ~aliased THEN editor.id
                          ELSE IF pos <= Len(erased) THEN erased[pos].id
                          ELSE IF stale THEN editor.id ELSE Destroyed
             IN  [st EXCEPT !.openEditors = erased,
                            !.activeEditor = IF @ = after THEN NullEditor ELSE @]
        ELSE st

\* ProjectManager::closeTempEditor
closeTempEditor(st, stale) ==
    IF \E i \in 1..Len(st.openEditors) : st.openEditors[i].temp
    THEN LET it == CHOOSE i \in 1..Len(st.openEditors) :
                      /\ st.openEditors[i].temp
                      /\ \A j \in 1..(i - 1) : ~st.openEditors[j].temp
         IN  closeEditor(st, it, TRUE, TRUE, TRUE, stale)
    ELSE st

\* the position of the editor with identity id, 0 when it is not open
PosOf(st, id) ==
    IF id \in OpenIds(st)
    THEN CHOOSE i \in 1..Len(st.openEditors) : st.openEditors[i].id = id
    ELSE 0

RECURSIVE closeAllEditors(_, _, _)
\* ProjectManager::closeAllEditors over a copy of the list; agree holds the
\* editors whose notifyClosing answers true
closeAllEditors(st, editorList, agree) ==
    IF editorList = <<>> THEN st
    ELSE LET editor == Head(editorList)
             pos == PosOf(st, editor.id)
             next == IF pos = 0 THEN st
                     ELSE closeEditor(st, pos, FALSE, editor.id \in agree, FALSE, FALSE)
         IN  closeAllEditors(next, Tail(editorList), agree)

Modified(st) == {st.openEditors[i].id : i \in {j \in 1..Len(st.openEditors) : st.openEditors[j].modified}}

\* the operation's record: a modified editor left the list
Done(before, after, name, force) ==
    [after EXCEPT !.last = [name |-> name, force |-> force,
                            lostModified |-> Modified(before) \ OpenIds(after) # {}]]

\* existing editor branch of openEditor and openTempEditor
Activate(st, pos) ==
    [st EXCEPT !.activeEditor = st.openEditors[pos].id,
               !.openEditors[pos].temp = FALSE]

NewEditor(id, path, temp) == [id |-> id, path |-> path, temp |-> temp, modified |-> FALSE]

\* ProjectManager::openEditor(path, isRecovered)
OlOpenEditor ==
    /\ \E path \in EditorPaths, isValid \in BOOLEAN :
         LET existing == getEditor(ol_state, path)
         IN  IF existing # 0
             THEN ol_state' = Done(ol_state, Activate(ol_state, existing), "openEditor", FALSE)
             ELSE IF ~isValid
             THEN ol_state' = Done(ol_state, ol_state, "openEditor", FALSE)
             ELSE /\ CanMake(ol_state)
                  /\ LET editor == NewEditor(MakeShared(ol_state), path, FALSE)
                     IN  ol_state' = Done(ol_state,
                            [ol_state EXCEPT
                               !.activeEditor = IF ol_state.openEditors = <<>>
                                                THEN editor.id ELSE @,
                               !.openEditors = Append(@, editor)],
                            "openEditor", FALSE)
    /\ UNCHANGED <<rngVars, arVars, emVars, bhVars, anVars, ixVars, drVars, cliVars, txVars, fzVars, rbVars, fqVars, pjVars, fmVars, hlVars, itVars, rcVars>>

\* ProjectManager::openEditor(): a new archive without a path
OlOpenNewEditor ==
    /\ CanMake(ol_state)
    /\ LET editor == NewEditor(MakeShared(ol_state), "", FALSE)
       IN  ol_state' = Done(ol_state,
              [ol_state EXCEPT !.activeEditor = editor.id,
                               !.openEditors = Append(@, editor)],
              "openEditor", FALSE)
    /\ UNCHANGED <<rngVars, arVars, emVars, bhVars, anVars, ixVars, drVars, cliVars, txVars, fzVars, rbVars, fqVars, pjVars, fmVars, hlVars, itVars, rcVars>>

\* ProjectManager::openTempEditor(path)
OlOpenTempEditor ==
    /\ \E path \in EditorPaths, isValid \in BOOLEAN, stale \in BOOLEAN :
         LET existing == getEditor(ol_state, path)
         IN  IF existing # 0
             THEN ol_state' = Done(ol_state, Activate(ol_state, existing), "openTempEditor", FALSE)
             ELSE IF ~isValid
             THEN ol_state' = Done(ol_state, ol_state, "openTempEditor", FALSE)
             ELSE LET closed == closeTempEditor(ol_state, stale)
                  IN  /\ CanMake(closed)
                      /\ LET editor == NewEditor(MakeShared(closed), path, TRUE)
                         IN  ol_state' = Done(ol_state,
                                [closed EXCEPT !.activeEditor = editor.id,
                                               !.openEditors = Append(@, editor)],
                                "openTempEditor", FALSE)
    /\ UNCHANGED <<rngVars, arVars, emVars, bhVars, anVars, ixVars, drVars, cliVars, txVars, fzVars, rbVars, fqVars, pjVars, fmVars, hlVars, itVars, rcVars>>

\* ProjectManager::closeEditor(editor, force) on an open editor
OlCloseEditor ==
    /\ \E pos \in 1..Len(ol_state.openEditors), force \in BOOLEAN,
          notifyClosing \in BOOLEAN :
         ol_state' = Done(ol_state,
                          closeEditor(ol_state, pos, force, notifyClosing, FALSE, FALSE),
                          "closeEditor", force)
    /\ UNCHANGED <<rngVars, arVars, emVars, bhVars, anVars, ixVars, drVars, cliVars, txVars, fzVars, rbVars, fqVars, pjVars, fmVars, hlVars, itVars, rcVars>>

\* ProjectManager::closeTempEditor
OlCloseTempEditor ==
    /\ \E stale \in BOOLEAN :
         ol_state' = Done(ol_state, closeTempEditor(ol_state, stale), "closeTempEditor", TRUE)
    /\ UNCHANGED <<rngVars, arVars, emVars, bhVars, anVars, ixVars, drVars, cliVars, txVars, fzVars, rbVars, fqVars, pjVars, fmVars, hlVars, itVars, rcVars>>

\* ProjectManager::closeAllEditors
OlCloseAllEditors ==
    /\ \E agree \in SUBSET OpenIds(ol_state) :
         ol_state' = Done(ol_state,
                          closeAllEditors(ol_state, ol_state.openEditors, agree),
                          "closeAllEditors", FALSE)
    /\ UNCHANGED <<rngVars, arVars, emVars, bhVars, anVars, ixVars, drVars, cliVars, txVars, fzVars, rbVars, fqVars, pjVars, fmVars, hlVars, itVars, rcVars>>

\* ProjectManager::closeProject(force): the editors part
OlCloseProject ==
    /\ \E force \in BOOLEAN, agree \in SUBSET OpenIds(ol_state) :
         LET canClose == agree = OpenIds(ol_state)
         IN  ol_state' = Done(ol_state,
                IF canClose \/ force
                THEN [ol_state EXCEPT !.activeEditor = NullEditor, !.openEditors = <<>>]
                ELSE ol_state,
                "closeProject", force)
    /\ UNCHANGED <<rngVars, arVars, emVars, bhVars, anVars, ixVars, drVars, cliVars, txVars, fzVars, rbVars, fqVars, pjVars, fmVars, hlVars, itVars, rcVars>>

\* the user edits an open editor that is not a preview
OlModify ==
    /\ \E pos \in 1..Len(ol_state.openEditors) :
         /\ ~ol_state.openEditors[pos].temp
         /\ ~ol_state.openEditors[pos].modified
         /\ ol_state' = [ol_state EXCEPT !.openEditors[pos].modified = TRUE,
                                         !.last = [NoOp EXCEPT !.name = "modify"]]
    /\ UNCHANGED <<rngVars, arVars, emVars, bhVars, anVars, ixVars, drVars, cliVars, txVars, fzVars, rbVars, fqVars, pjVars, fmVars, hlVars, itVars, rcVars>>

OlNext ==
    \/ OlOpenEditor
    \/ OlOpenNewEditor
    \/ OlOpenTempEditor
    \/ OlCloseEditor
    \/ OlCloseTempEditor
    \/ OlCloseAllEditors
    \/ OlCloseProject
    \/ OlModify

(***************************************************************************)
(* The lists of recent files and projects (Application::addRecentFile,     *)
(* addRecentProject).  A path is a number; the lists are read from the     *)
(* configuration at start, so a run may begin with a full list.            *)
(***************************************************************************)
RecentCapacity == 10
MaxAdds == 2
RecentPaths == 1..(RecentCapacity + 1)

FullList == [i \in 1..RecentCapacity |-> i]

NoAdd == [list |-> "none", path |-> 0, before |-> <<>>]

RcIdle ==
    rc_state = [m_recentFiles |-> <<>>, m_recentProjects |-> <<>>, adds |-> 0, last |-> NoAdd]

RcInit ==
    \E files \in {<<>>, FullList}, projects \in {<<>>, FullList} :
        rc_state = [m_recentFiles |-> files, m_recentProjects |-> projects,
                    adds |-> 0, last |-> NoAdd]

\* existing != end(): erase(existing), for the first occurrence of path
EraseFirst(list, path) ==
    IF \E i \in 1..Len(list) : list[i] = path
    THEN LET existing == CHOOSE i \in 1..Len(list) :
                            list[i] = path /\ \A j \in 1..(i - 1) : list[j] # path
         IN  SubSeq(list, 1, existing - 1) \o SubSeq(list, existing + 1, Len(list))
    ELSE list

\* the body shared by Application::addRecentFile and addRecentProject
addRecent(list, path) ==
    LET popped == IF Len(list) >= RecentCapacity THEN SubSeq(list, 1, Len(list) - 1)
                  ELSE list
    IN  <<path>> \o EraseFirst(popped, path)

AddRecentFile ==
    /\ rc_state.adds < MaxAdds
    /\ \E path \in RecentPaths :
         rc_state' = [rc_state EXCEPT
                        !.m_recentFiles = addRecent(@, path),
                        !.adds = @ + 1,
                        !.last = [list |-> "files", path |-> path,
                                  before |-> rc_state.m_recentFiles]]
    /\ UNCHANGED <<rngVars, arVars, emVars, bhVars, anVars, ixVars, drVars, cliVars, txVars, fzVars, rbVars, fqVars, pjVars, fmVars, hlVars, itVars, olVars>>

AddRecentProject ==
    /\ rc_state.adds < MaxAdds
    /\ \E path \in RecentPaths :
         rc_state' = [rc_state EXCEPT
                        !.m_recentProjects = addRecent(@, path),
                        !.adds = @ + 1,
                        !.last = [list |-> "projects", path |-> path,
                                  before |-> rc_state.m_recentProjects]]
    /\ UNCHANGED <<rngVars, arVars, emVars, bhVars, anVars, ixVars, drVars, cliVars, txVars, fzVars, rbVars, fqVars, pjVars, fmVars, hlVars, itVars, olVars>>

RcNext == AddRecentFile \/ AddRecentProject

(***************************************************************************)
(* Specifications                                                          *)
(***************************************************************************)
InitRandom == RngInit /\ ArIdle /\ EmIdle /\ BhIdle /\ AnIdle /\ IxIdle /\ DrIdle /\ CliIdle /\ TxIdle /\ FzIdle /\ RbIdle /\ FqIdle /\ PjIdle /\ FmIdle /\ HlIdle /\ ItIdle /\ OlIdle /\ RcIdle
SpecRandom == InitRandom /\ [][RngNext]_vars

InitArchive == ArInit /\ RngIdle /\ EmIdle /\ BhIdle /\ AnIdle /\ IxIdle /\ DrIdle /\ CliIdle /\ TxIdle /\ FzIdle /\ RbIdle /\ FqIdle /\ PjIdle /\ FmIdle /\ HlIdle /\ ItIdle /\ OlIdle /\ RcIdle
SpecArchive == InitArchive /\ [][ArNext]_vars

InitFlags == FlInit /\ RngIdle /\ EmIdle /\ BhIdle /\ AnIdle /\ IxIdle /\ DrIdle /\ CliIdle /\ TxIdle /\ FzIdle /\ RbIdle /\ FqIdle /\ PjIdle /\ FmIdle /\ HlIdle /\ ItIdle /\ OlIdle /\ RcIdle
SpecFlags == InitFlags /\ [][ArNext]_vars

InitEditor == EdInit /\ RngIdle /\ EmIdle /\ BhIdle /\ AnIdle /\ IxIdle /\ DrIdle /\ CliIdle /\ TxIdle /\ FzIdle /\ RbIdle /\ FqIdle /\ PjIdle /\ FmIdle /\ HlIdle /\ ItIdle /\ OlIdle /\ RcIdle
SpecEditor == InitEditor /\ [][EdNext]_vars

InitBehaviors == BhInit /\ RngIdle /\ EmIdle /\ BhIdle /\ AnIdle /\ IxIdle /\ DrIdle /\ CliIdle /\ TxIdle /\ FzIdle /\ RbIdle /\ FqIdle /\ PjIdle /\ FmIdle /\ HlIdle /\ ItIdle /\ OlIdle /\ RcIdle
SpecBehaviors == InitBehaviors /\ [][BhNext]_vars

InitAngle == AnInit /\ RngIdle /\ ArIdle /\ EmIdle /\ BhIdle /\ IxIdle /\ DrIdle /\ CliIdle /\ TxIdle /\ FzIdle /\ RbIdle /\ FqIdle /\ PjIdle /\ FmIdle /\ HlIdle /\ ItIdle /\ OlIdle /\ RcIdle
SpecAngle == InitAngle /\ [][AnNext]_vars

InitEmitter == EmInit /\ ArOpenSelected /\ RngIdle /\ BhIdle /\ AnIdle /\ IxIdle /\ DrIdle /\ CliIdle /\ TxIdle /\ FzIdle /\ RbIdle /\ FqIdle /\ PjIdle /\ FmIdle /\ HlIdle /\ ItIdle /\ OlIdle /\ RcIdle
SpecEmitter == InitEmitter /\ [][EmNext]_vars

InitIndex == IxInit /\ RngIdle /\ BhIdle /\ AnIdle /\ DrIdle /\ CliIdle /\ TxIdle /\ FzIdle /\ RbIdle /\ FqIdle /\ PjIdle /\ FmIdle /\ HlIdle /\ ItIdle /\ OlIdle /\ RcIdle
SpecIndex == InitIndex /\ [][IxNext]_vars

InitRuns == DrInit /\ RngIdle /\ ArIdle /\ EmIdle /\ BhIdle /\ AnIdle /\ IxIdle /\ CliIdle /\ TxIdle /\ FzIdle /\ RbIdle /\ FqIdle /\ PjIdle /\ FmIdle /\ HlIdle /\ ItIdle /\ OlIdle /\ RcIdle
SpecRuns == InitRuns /\ [][DrNext]_vars

InitCli == CliInit /\ RngIdle /\ ArIdle /\ EmIdle /\ BhIdle /\ AnIdle /\ IxIdle /\ DrIdle /\ TxIdle /\ FzIdle /\ RbIdle /\ FqIdle /\ PjIdle /\ FmIdle /\ HlIdle /\ ItIdle /\ OlIdle /\ RcIdle
SpecCli == InitCli /\ [][CliNext]_vars

InitTextures == TxInit /\ RngIdle /\ ArIdle /\ EmIdle /\ BhIdle /\ AnIdle /\ IxIdle /\ DrIdle /\ CliIdle /\ FzIdle /\ RbIdle /\ FqIdle /\ PjIdle /\ FmIdle /\ HlIdle /\ ItIdle /\ OlIdle /\ RcIdle
SpecTextures == InitTextures /\ [][TxNext]_vars

InitFuzzy == FzInit /\ RngIdle /\ ArIdle /\ EmIdle /\ BhIdle /\ AnIdle /\ IxIdle /\ DrIdle /\ CliIdle /\ TxIdle /\ RbIdle /\ FqIdle /\ PjIdle /\ FmIdle /\ HlIdle /\ ItIdle /\ OlIdle /\ RcIdle
SpecFuzzy == InitFuzzy /\ [][FzNext]_vars /\ FzFairness

InitRebuild == RbInit /\ RngIdle /\ ArIdle /\ EmIdle /\ BhIdle /\ AnIdle /\ IxIdle /\ DrIdle /\ CliIdle /\ TxIdle /\ FqIdle /\ PjIdle /\ FmIdle /\ HlIdle /\ ItIdle /\ OlIdle /\ RcIdle
SpecRebuild == InitRebuild /\ [][RbNext]_vars

InitFinder == FqInit /\ RngIdle /\ ArIdle /\ EmIdle /\ BhIdle /\ AnIdle /\ IxIdle /\ DrIdle /\ CliIdle /\ TxIdle /\ FzIdle /\ RbIdle /\ PjIdle /\ FmIdle /\ HlIdle /\ ItIdle /\ OlIdle /\ RcIdle
SpecFinder == InitFinder /\ [][FqNext]_vars

InitProject == PjInit /\ RngIdle /\ ArIdle /\ EmIdle /\ BhIdle /\ AnIdle /\ IxIdle /\ DrIdle /\ CliIdle /\ TxIdle /\ FzIdle /\ RbIdle /\ FqIdle /\ FmIdle /\ HlIdle /\ ItIdle /\ OlIdle /\ RcIdle
SpecProject == InitProject /\ [][PjNext]_vars

InitIndexMap == FmInit /\ RngIdle /\ ArIdle /\ EmIdle /\ BhIdle /\ AnIdle /\ IxIdle /\ DrIdle /\ CliIdle /\ TxIdle /\ FzIdle /\ RbIdle /\ FqIdle /\ PjIdle /\ HlIdle /\ ItIdle /\ OlIdle /\ RcIdle
SpecIndexMap == InitIndexMap /\ [][FmNext]_vars

InitHostLoop == HlInit /\ RngIdle /\ ArIdle /\ EmIdle /\ BhIdle /\ AnIdle /\ IxIdle /\ DrIdle /\ CliIdle /\ TxIdle /\ FzIdle /\ RbIdle /\ FqIdle /\ PjIdle /\ FmIdle /\ ItIdle /\ OlIdle /\ RcIdle
SpecHostLoop == InitHostLoop /\ [][HlNext]_vars

InitTasks == ItInit /\ RngIdle /\ ArIdle /\ EmIdle /\ BhIdle /\ AnIdle /\ IxIdle /\ DrIdle /\ CliIdle /\ TxIdle /\ FzIdle /\ RbIdle /\ FqIdle /\ PjIdle /\ FmIdle /\ HlIdle /\ OlIdle /\ RcIdle
SpecTasks == InitTasks /\ [][ItNext]_vars

InitOpenList == OlInit /\ RngIdle /\ ArIdle /\ EmIdle /\ BhIdle /\ AnIdle /\ IxIdle /\ DrIdle /\ CliIdle /\ TxIdle /\ FzIdle /\ RbIdle /\ FqIdle /\ PjIdle /\ FmIdle /\ HlIdle /\ ItIdle /\ RcIdle
SpecOpenList == InitOpenList /\ [][OlNext]_vars

InitRecent == RcInit /\ RngIdle /\ ArIdle /\ EmIdle /\ BhIdle /\ AnIdle /\ IxIdle /\ DrIdle /\ CliIdle /\ TxIdle /\ FzIdle /\ RbIdle /\ FqIdle /\ PjIdle /\ FmIdle /\ HlIdle /\ ItIdle /\ OlIdle
SpecRecent == InitRecent /\ [][RcNext]_vars

InitScenario == ScInit /\ ArOpenSelected /\ RngIdle /\ BhIdle /\ AnIdle /\ IxIdle /\ DrIdle /\ CliIdle /\ TxIdle /\ FzIdle /\ RbIdle /\ FqIdle /\ PjIdle /\ FmIdle /\ HlIdle /\ ItIdle /\ OlIdle /\ RcIdle
SpecScenario == InitScenario /\ [][ScNext]_vars

(***************************************************************************)
(* Claims on SPLRandom (checked under SpecRandom).  Values are fx32        *)
(* numerators; comparisons are arranged so that no intermediate exceeds    *)
(* 32 bits.                                                                *)
(***************************************************************************)
\* floor(q * num / den) for 0 <= num <= den
ScaleFloor(q, num, den) == (q \div den) * num + ((q % den) * num) \div den

\* C7: in accurate mode scaledRange(n, variance) lies in
\* [n*(1 - variance/2), n*(1 + variance/2)], up to a truncation step, for
\* every n >= 0, variance in [0, 1] and 8-bit draw (for variance = 0: n).
C7_ScaledRangeAroundN ==
    rng_call = "scaledRange" =>
        /\ rng_result >= ScaleFloor(rng_n, 2 * VarDen - rng_variance, 2 * VarDen) - 1
        /\ \/ rng_result <= 0
           \/ rng_result - rng_n
                 <= ScaleFloor(rng_n, rng_variance, 2 * VarDen) + 2

\* C8: in accurate mode scaledRange2(n, variance) lies in
\* [n, n*(1 + variance)], up to a truncation step; it never returns less
\* than n.
C8_ScaledRange2AtLeastN ==
    rng_call = "scaledRange2" =>
        /\ rng_result >= rng_n - 1
        /\ rng_result - rng_n <= ScaleFloor(rng_n, rng_variance, VarDen) + 2

\* floor(R * (r9 - 256) / 256), the value of (R*r9 - R*256) / 256 with the
\* truncation of an arithmetic shift
AroundZeroExact(R, r9) ==
    (R \div 256) * (r9 - 256) + ((R % 256) * (r9 - 256)) \div 256

\* C9 as stated: for every range >= 0 and 9-bit draw, aroundZero(range)
\* equals (R*r9 - R*256)/256, lies in [-range, range], and both -range and
\* +range are returned for some draw.
C9_AroundZeroClosedRange ==
    rng_call = "aroundZero" =>
        /\ rng_result = AroundZeroExact(rng_n, rng_raw \div 128)
        /\ 0 - rng_n <= rng_result
        /\ rng_result <= rng_n
        /\ \E raw \in Draws : (0 - rng_n) \in aroundZero(rng_n, raw)
        /\ \E raw \in Draws : rng_n \in aroundZero(rng_n, raw)

\* the ranges whose products with a 9-bit draw fit in 32 bits
AroundZeroFits(R) == R <= S32_MAX \div 511

\* C9 amended: when R*511 fits in 32 bits, aroundZero(range) equals
\* floor((R*r9 - R*256)/256) and lies in [-range, range*255/256]; -range is
\* returned for r9 = 0 and +range is returned by no draw unless range = 0.
C9_AroundZeroHalfOpen ==
    (rng_call = "aroundZero" /\ AroundZeroFits(rng_n)) =>
        /\ rng_result = AroundZeroExact(rng_n, rng_raw \div 128)
        /\ 0 - rng_n <= rng_result
        /\ rng_result <= (rng_n * 255) \div 256
        /\ (rng_raw \div 128 = 0) => rng_result = 0 - rng_n
        /\ (rng_result = rng_n) => rng_n = 0

C9_Witness ==
    /\ rng_call = "aroundZero"
    /\ rng_n = FX32_ONE
    /\ rng_raw \div 128 = 0
    /\ rng_result = 0 - FX32_ONE

(***************************************************************************)
(* Claims on the decoder (checked under SpecArchive).                      *)
(***************************************************************************)
\* the number of records a complete file of f holds
FullLength(f) ==
    LET n[i \in 0..Len(f.res)] ==
            IF i = 0 THEN 0 ELSE n[i - 1] + 1 + Cardinality(f.res[i].flags)
    IN  1 + n[Len(f.res)] + 2 * Len(f.tex)

\* nothing is wrong with the file: magic, every discriminant, every size, no cut
WellFormed(f) ==
    /\ f.magicOk
    /\ f.len >= FullLength(f)
    /\ \A i \in 1..Len(f.res) : f.res[i].emissionType <= LastEmissionType
    /\ \A i \in 1..Len(f.tex) : f.tex[i].sizeOk

KindsOf(res) == {res.behaviors[j] : j \in 1..Len(res.behaviors)}
FlaggedKinds(res) == {k \in KindSet : BehaviorFlag[k] \in res.flags}

\* C5: in every state of a resource, after decoding and after any sequence
\* of "Add Behavior" and "Delete", the kinds in resource.behaviors are the
\* kinds whose has<Kind>Behavior flag is set, and no kind occurs twice.
C5_BehaviorsMatchFlags ==
    \A i \in 1..Len(ar_archive.resources) :
        LET res == ar_archive.resources[i]
        IN  /\ KindsOf(res) = FlaggedKinds(res)
            /\ Cardinality(KindsOf(res)) = Len(res.behaviors)

\* Gravity was decoded and later deleted, Magnet was added after Spin
C5_Witness ==
    /\ ar_pc = "open"
    /\ "hasGravityBehavior" \in ar_file.res[1].flags
    /\ ar_archive.resources[1].behaviors = <<"Spin", "Magnet">>
    /\ FlaggedKinds(ar_archive.resources[1]) = {"Spin", "Magnet"}

\* C6: in every state of a resource, after decoding and after any editor
\* operation, resource.childResource holds a value exactly if the
\* hasChildResource flag is set.
C6_ChildIffFlag ==
    \A i \in 1..Len(ar_archive.resources) :
        ar_archive.resources[i].childResource
            <=> ("hasChildResource" \in ar_archive.resources[i].flags)

(***************************************************************************)
(* Claims on emitters and particles (checked under SpecEmitter).           *)
(***************************************************************************)
\* the emitter in slot i lives through the step: it is neither new nor destroyed
Persists(i) == em_emitters[i].live /\ ~em_emitters[i].terminate

PoolsEmpty(e) == e.particles = <<>> /\ e.childParticles = <<>>

\* C1: in every tick, update terminates a self-maintaining emitter exactly
\* if at the end of that tick age >= emitterLifeTime and both pools are
\* empty; so it terminates in the first such tick and in no tick where
\* age < emitterLifeTime or a pool still holds a particle.
C1_TerminatesWhenAgedAndEmpty ==
    [][ (em_last'.op = "update" /\ em_res.selfMaintaining) =>
           \A i \in 1..MaxEmitters :
               Persists(i) =>
                   (em_emitters'[i].terminate <=>
                       (/\ em_emitters'[i].age >= em_res.emitterLifeTime
                        /\ PoolsEmpty(em_emitters'[i]))) ]_vars

\* an emitter whose only particle retired in the tick that took it to its
\* lifetime 4 while the child of that particle lived on: the emitter was not
\* terminated then, and the next tick, which retired the child, terminated it
C1_Witness ==
    /\ em_last.op = "update"
    /\ em_last.dt = 1
    /\ em_res.selfMaintaining
    /\ em_res.hasChildResource
    /\ em_res.emitterLifeTime = 4
    /\ \E i \in 1..MaxEmitters :
          /\ em_emitters[i].live
          /\ em_emitters[i].terminate
          /\ em_emitters[i].emitted = 1
          /\ em_emitters[i].age = 5

\* C2: a kill request terminates every emitter within the request, whatever
\* its age, its self-maintaining flag and its pools, and leaves both pools
\* empty; a terminated emitter never holds a particle again: it stays as it
\* is until it is destroyed.
C2_KillTerminatesAtOnce ==
    [][ /\ em_last'.op = "kill" =>
              \A i \in 1..MaxEmitters :
                  em_emitters[i].live =>
                      /\ em_emitters'[i].live
                      /\ em_emitters'[i].terminate
                      /\ PoolsEmpty(em_emitters'[i])
        /\ \A i \in 1..MaxEmitters :
              (em_emitters[i].live /\ em_emitters[i].terminate) =>
                  \/ ~em_emitters'[i].live
                  \/ em_emitters'[i] = em_emitters[i]
        /\ \A i \in 1..MaxEmitters :
              em_emitters'[i].terminate => PoolsEmpty(em_emitters'[i]) ]_vars

\* an emitter that is not self-maintaining, killed one tick after it emitted
\* a particle that had two more time units to live
C2_Witness ==
    /\ em_last.op = "kill"
    /\ ~em_res.selfMaintaining
    /\ em_res.particleLifeTime = 3
    /\ \E i \in 1..MaxEmitters :
          /\ em_emitters[i].live
          /\ em_emitters[i].terminate
          /\ em_emitters[i].age = 1
          /\ em_emitters[i].emitted = 1
          /\ PoolsEmpty(em_emitters[i])

\* the particles of pool that are still due after dt more, in pool order,
\* leaving out the one at index skip
StillDue(pool, dt, skip) ==
    LET idx == SelectSeq([i \in 1..Len(pool) |-> i],
                         LAMBDA i : i # skip /\ pool[i].life + dt < pool[i].lifeTime)
    IN  [k \in 1..Len(idx) |-> [pool[idx[k]] EXCEPT !.life = @ + dt]]

IsPrefix(a, b) == Len(a) <= Len(b) /\ SubSeq(b, 1, Len(a)) = a

\* elapsed life is the time since the spawn, and nothing in a pool is overdue
LifeIsCumulative(e) ==
    \A pool \in {e.particles, e.childParticles} :
        \A k \in 1..Len(pool) :
            /\ pool[k].life = e.age - pool[k].born
            /\ pool[k].life < pool[k].lifeTime

Boundaries(t0, t1, interval) ==
    {b \in (t0 + 1)..t1 : b % interval = 0}

\* C12: a tick that leaves the emitter past its start delay spawns particles
\* exactly if its age crossed at least one emission-interval boundary, and
\* then it spawns exactly emissionCount of them, however many boundaries
\* were crossed.
C12_EmissionCountPerTick ==
    [][ em_last'.op = "update" =>
           \A i \in 1..MaxEmitters :
               (Persists(i) /\ em_emitters'[i].age >= em_res.startDelay) =>
                   em_emitters'[i].spawned - em_emitters[i].spawned =
                       IF Boundaries(em_emitters[i].age, em_emitters'[i].age,
                                     em_res.emissionInterval) # {}
                       THEN em_res.emissionCount ELSE 0 ]_vars

\* one tick of 2 over two boundaries of an interval of 1 spawned emissionCount
\* particles, not twice as many
C12_Witness ==
    /\ em_last.op = "update"
    /\ em_last.dt = 2
    /\ em_res.emissionInterval = 1
    /\ em_res.startDelay = 0
    /\ em_res.emissionCount = 1
    /\ \E i \in 1..MaxEmitters :
          /\ em_emitters[i].live
          /\ em_emitters[i].age = 2
          /\ em_emitters[i].spawned = 1

(***************************************************************************)
(* The order of the optional records (checked under SpecFlags).            *)
(***************************************************************************)
CanonicalRecords ==
    <<"hasScaleAnim", "hasColorAnim", "hasAlphaAnim", "hasTexAnim",
      "hasChildResource", "hasGravityBehavior", "hasRandomBehavior",
      "hasMagnetBehavior", "hasSpinBehavior", "hasCollisionPlaneBehavior",
      "hasConvergenceBehavior">>

CanonicalKinds ==
    <<"Gravity", "Random", "Magnet", "Spin", "CollisionPlane", "Convergence">>

\* C13: for every combination of the eleven flag bits, the decoder reads,
\* after the resource header, exactly the records whose flag is set, in the
\* order ScaleAnim, ColorAnim, AlphaAnim, TexAnim, ChildResource, Gravity,
\* Random, Magnet, Spin, CollisionPlane, Convergence, and each optional part
\* of the decoded resource is present exactly if its flag was set.
C13_OptionalRecordsByFlag ==
    /\ ar_pc \in {"closed", "open"}
    /\ ar_pc = "open" =>
          LET fl == ar_file.res[1].flags
              r == ar_archive.resources[1]
          IN  /\ Len(ar_archive.resources) = 1
              /\ Len(ar_archive.textures) = 1
              /\ r.consumed = SelectSeq(CanonicalRecords, LAMBDA f : f \in fl)
              /\ r.scaleAnim <=> "hasScaleAnim" \in fl
              /\ r.colorAnim <=> "hasColorAnim" \in fl
              /\ r.alphaAnim <=> "hasAlphaAnim" \in fl
              /\ r.texAnim <=> "hasTexAnim" \in fl
              /\ r.childResource <=> "hasChildResource" \in fl
              /\ r.behaviors =
                    SelectSeq(CanonicalKinds, LAMBDA k : BehaviorFlag[k] \in fl)

\* a resource with ColorAnim, a child resource, Spin and Gravity
C13_Witness ==
    /\ ar_pc = "open"
    /\ ar_file.res[1].flags = {"hasColorAnim", "hasChildResource",
                               "hasSpinBehavior", "hasGravityBehavior"}
    /\ ar_archive.resources[1].consumed =
          <<"hasColorAnim", "hasChildResource", "hasGravityBehavior", "hasSpinBehavior">>

(***************************************************************************)
(* The order of the behaviours (checked under SpecBehaviors).              *)
(***************************************************************************)
KindPosition(k) == CHOOSE i \in 1..Len(CanonicalKinds) : CanonicalKinds[i] = k

C15_AngleRoundTrip ==
    /\ an_conv.pc \in {"angle", "back"} =>
          (0 <= an_conv.angle /\ an_conv.angle < TwoPi)
    /\ an_conv.pc = "back" => an_conv.back = an_conv.index

(***************************************************************************)
(* Claims on the editor's indices (checked under SpecIndex).               *)
(***************************************************************************)

\* C16: every index the editor hands to the archive's resource list, from
\* playEmitterAction or from an interval task, is at least 0 and below the
\* number of resources, also when nothing was ever selected or the archive
\* has no resources.
C16_IndicesInBounds ==
    ix_use.op # "none" => InBounds(ix_use.index, ix_use.count)

(***************************************************************************)
(* Claims on determinism (checked under SpecRuns).                         *)
(***************************************************************************)
InInsertionOrder(pool) ==
    \A i \in 1..(Len(pool) - 1) : pool[i].born <= pool[i + 1].born

C18_ExportsExactlyTheIndices ==
    (cli_run.pc = "done" /\ Len(cli_run.indices) >= 2 /\ cli_run.rc = 0) =>
        cli_run.exported = {cli_run.indices[i] : i \in 1..Len(cli_run.indices)}

(***************************************************************************)
(* Claims on texture creation (checked under SpecTextures).                *)
(***************************************************************************)

\* C19: a texture whose format has no pixel expansion does not stop the
\* archive load: the case is logged, and the upload of that texture reads
\* no byte beyond the buffer the expansion returned.
C19_UnsupportedFormatIsHarmless ==
    /\ tx_load.pc # "stopped"
    /\ \A i \in 1..Len(tx_load.uploads) :
          tx_load.uploads[i].format \notin FormatsConverted =>
              /\ tx_load.uploads[i].logged
              /\ tx_load.uploads[i].read <= tx_load.uploads[i].size

(***************************************************************************)
(* Claims on the fuzzy index (checked under SpecFuzzy).                    *)
(***************************************************************************)

\* C20: every call of onFileMoved / fuzzyMovePath returns with m_fuzzyMutex
\* released by the caller, also when the old path is not in the index and
\* the call goes on to fuzzyAddPath(newPath); no thread waits for ever for
\* the mutex.
C20_EveryMoveReturns ==
    \A t \in Threads :
        /\ At(t, "move") ~> (At(t, "idle") /\ fz_owner # t)
        /\ At(t, "query") ~> At(t, "idle")

(***************************************************************************)
(* Claims on the index build (checked under SpecRebuild).                  *)
(***************************************************************************)

\* C21: once the background build has swapped in its result, every file
\* added through fuzzyAddPath while the build was running is in the index
\* and every file removed through fuzzyRemovePath meanwhile is not.
C21_BuildLosesNoUpdate ==
    rb_build.pc = "swapped" =>
        /\ rb_build.added \subseteq fz_index
        /\ rb_build.removed \cap fz_index = {}

(***************************************************************************)
(* Claims on the fuzzy finder (checked under SpecFinder).                  *)
(***************************************************************************)

\* C22: with an unchanged index, the results updateFuzzyResults computes
\* for a non-empty query, over the candidates kept from the previous query
\* when the query extends it, are the results of a scan of the full file
\* list: every file that scores > 0 for the query is among them.
C22_NarrowingEqualsFullScan ==
    fq_find.query # <<>> =>
        fq_find.results =
            {[index |-> i, score |-> BestScore(fq_find.query, fq_find.files[i])] :
                i \in Survivors(fq_find.files, 1..Len(fq_find.files), fq_find.query)}

(***************************************************************************)
(* Claims on closing a project (checked under SpecProject).                *)
(***************************************************************************)

\* C23: when closeProject proceeds, the cache file of the project that was
\* closed holds the fuzzy index as it was at the close, with the additions
\* and removals since it was built.
C23_CloseSavesIndex ==
    (pj_state.op = "close" /\ pj_state.last.proceeded) =>
        pj_state.cache[pj_state.last.project] = <<pj_state.last.index>>

(***************************************************************************)
(* Claims on the index map and the file list (checked under SpecIndexMap). *)
(***************************************************************************)

\* C24: after any sequence of fuzzyAddPath, fuzzyRemovePath, fuzzyMovePath
\* and rebuildFuzzyIndex the map has exactly one key per entry of the file
\* list, every key maps to the position of the entry with that relative
\* path, and no two entries have the same relative path.
C24_IndexAgreesWithFiles ==
    LET files == fm_state.files
        index == fm_state.index
    IN  /\ Cardinality(DOMAIN index) = Len(files)
        /\ \A rel \in DOMAIN index :
             /\ index[rel] \in 0..(Len(files) - 1)
             /\ files[index[rel] + 1] = rel
        /\ \A i \in 1..Len(files), j \in 1..Len(files) :
             i # j => files[i] # files[j]

\* an entry that was not the last one was removed and others remain
C24_Witness ==
    /\ fm_state.op = "removeSwap"
    /\ Len(fm_state.files) >= 2
    /\ C24_IndexAgreesWithFiles

(***************************************************************************)
(* Claims on the host loop (checked under SpecHostLoop).                   *)
(***************************************************************************)

\* C25: an iteration in which the active editor has emitters, or the window
\* is neither minimized nor unfocused, calls updateParticles exactly once
\* with the frame's delta; any other iteration only adds the delta to the
\* idle accumulator and, once the accumulator exceeds 0.5 s, calls
\* updateParticles once with the accumulated sum and resets the accumulator
\* to 0.  At every point the dt values passed plus the accumulator add up to
\* the elapsed frame time.
C25_HostLoopPolicy ==
    LET f == hl_state.last
        live == f.activeEmitters \/ (~f.minimized /\ f.focused)
        sum == f.before + f.delta
    IN  /\ hl_state.passed + hl_state.m_idleAccumulator = hl_state.elapsed
        /\ hl_state.op = "frame" =>
             IF live
             THEN f.calls = <<f.delta>> /\ hl_state.m_idleAccumulator = f.before
             ELSE IF sum > IdleThreshold
                  THEN f.calls = <<sum>> /\ hl_state.m_idleAccumulator = 0
                  ELSE f.calls = <<>> /\ hl_state.m_idleAccumulator = sum

\* an idle iteration flushed an accumulator that earlier idle frames filled
C25_Witness ==
    /\ hl_state.op = "frame"
    /\ hl_state.last.minimized
    /\ ~hl_state.last.activeEmitters
    /\ hl_state.last.before > 0
    /\ hl_state.last.calls = <<hl_state.last.before + hl_state.last.delta>>
    /\ hl_state.m_idleAccumulator = 0
    /\ hl_state.passed > hl_state.last.before + hl_state.last.delta

(***************************************************************************)
(* Claims on interval spawn tasks (checked under SpecTasks).               *)
(***************************************************************************)
\* the positions of the tasks of editor e that are due at the time now
DuePositions(tasks, e, now) ==
    {i \in 1..Len(tasks) : tasks[i].editorID = e /\ now - tasks[i].time >= tasks[i].interval}

\* the tasks of editor e, in their order
TasksOf(tasks, e) == SelectSeq(tasks, LAMBDA t : t.editorID = e)

\* C26: an updateParticles call adds, for every interval task of the active
\* editor whose interval has passed since it last spawned, one non-looped
\* emitter of the task's resource to that editor and nothing to any other
\* editor, and restarts the interval of exactly those tasks; a killEmitters
\* call removes every task of the active editor and leaves the tasks of the
\* other editors as they were; only a play request gives an editor a task,
\* so after a kill no update spawns for it until play is requested again.
C26_IntervalTasks ==
    [][ LET e == it_state.active
            old == it_state.tasks
            new == it_state'.tasks
            due == DuePositions(old, e, it_state.now)
        IN  /\ (it_state'.op = "update" /\ e # NoEditor) =>
                 /\ Len(it_state'.spawned) = Cardinality(due)
                 /\ \A i \in due :
                      it_state'.spawned[Cardinality({j \in due : j <= i})] =
                          [editorID |-> e, resourceIndex |-> old[i].resourceIndex,
                           looped |-> FALSE]
                 /\ Len(new) = Len(old)
                 /\ \A i \in 1..Len(old) :
                      new[i] = IF i \in due THEN [old[i] EXCEPT !.time = it_state.now]
                               ELSE old[i]
            /\ (it_state'.op = "update" /\ e = NoEditor) =>
                 it_state'.tasks = old /\ it_state'.spawned = <<>>
            /\ (it_state'.op = "kill" /\ e # NoEditor) =>
                 /\ TasksOf(new, e) = <<>>
                 /\ \A o \in EditorIDs \ {e} : TasksOf(new, o) = TasksOf(old, o)
            /\ it_state'.op # "play" =>
                 \A o \in EditorIDs : Len(TasksOf(new, o)) <= Len(TasksOf(old, o))
      ]_vars

\* editor e1 got an emitter from its task while a task of editor e2, also
\* due, stayed as it was
C26_Witness ==
    /\ it_state.op = "update"
    /\ it_state.active = "e1"
    /\ Len(it_state.spawned) = 1
    /\ it_state.spawned[1].editorID = "e1"
    /\ \E i \in 1..Len(it_state.tasks) :
         /\ it_state.tasks[i].editorID = "e2"
         /\ it_state.now - it_state.tasks[i].time >= it_state.tasks[i].interval

(***************************************************************************)
(* Claims on the open editors (checked under SpecOpenList).                *)
(***************************************************************************)

\* C27: after any sequence of openEditor, openTempEditor, closeEditor,
\* closeTempEditor, closeAllEditors and closeProject the active editor is
\* null or one of the open editors, no two open editors were opened from the
\* same file path, at most one open editor is temporary, and no closeEditor
\* or closeAllEditors without force has removed a modified editor.
C27_OpenEditorsConsistent ==
    LET open == ol_state.openEditors
    IN  /\ ol_state.activeEditor = NullEditor \/ ol_state.activeEditor \in OpenIds(ol_state)
        /\ \A i \in 1..Len(open), j \in 1..Len(open) :
             (i # j /\ open[i].path # "") => open[i].path # open[j].path
        /\ Cardinality({i \in 1..Len(open) : open[i].temp}) <= 1
        /\ (ol_state.last.name \in {"closeEditor", "closeAllEditors"} /\ ~ol_state.last.force)
              => ~ol_state.last.lostModified

(***************************************************************************)
(* Claims on the recent lists (checked under SpecRecent).                  *)
(***************************************************************************)
\* the most-recently-used list of capacity 10 after add(path)
MruAdd(before, path) ==
    LET rest == SelectSeq(before, LAMBDA q : q # path)
        all == <<path>> \o rest
    IN  SubSeq(all, 1, IF Len(all) > RecentCapacity THEN RecentCapacity ELSE Len(all))

\* C28: after addRecentFile(p) or addRecentProject(p) the list is p followed
\* by the previous entries without p, in their order, cut to 10 entries; it
\* holds no path twice and at most 10 entries, and re-adding a listed path
\* evicts no other entry.
C28_MostRecentlyUsed ==
    LET after == IF rc_state.last.list = "files" THEN rc_state.m_recentFiles
                 ELSE rc_state.m_recentProjects
        before == rc_state.last.before
        path == rc_state.last.path
    IN  rc_state.last.list # "none" =>
          /\ after = MruAdd(before, path)
          /\ Len(after) <= RecentCapacity
          /\ \A i \in 1..Len(after), j \in 1..Len(after) : i # j => after[i] # after[j]
          /\ (\E i \in 1..Len(before) : before[i] = path) =>
                \A i \in 1..Len(before) : \E j \in 1..Len(after) : after[j] = before[i]

====
